---- MODULE Spec2Model ----
(***************************************************************************)
(* The cache/refresh layer of the ferry server (server/lib/wsf) and the    *)
(* start-up code of server.ts, as a state machine.  One action is one      *)
(* macrotask of the node event loop: the code that runs from the arrival   *)
(* of an I/O result (or a timer tick, or an HTTP request) up to the next   *)
(* await of an I/O operation.                                              *)
(***************************************************************************)
EXTENDS Integers, Sequences, FiniteSets, TLC

(* ------------------------------ bounds -------------------------------- *)
MaxLongRuns == 3
MaxShortRuns == 3
MaxToken == 2
MaxCalls == 1
MaxFaults == 1
MaxSaves == 3
MaxNow == 1
\* the invocations of the short cycle in Spec: the one of the start-up and the
\* first of the timer
MaxSpecRuns == 2
\* the largest count of spaces in a capacity given to isEmpty and isFull
MaxCount == 4
\* the largest delay, and the largest distance of a departure from the clock, of
\* a capacity given to hasPassed
MaxDelta == 4

(* ----------------------------- constants ------------------------------ *)
Null == -1
Week == 604800
Day == 86400

Now0 == 2 * Week
T1 == Now0 + 30
T2 == Now0 + 90

Families == {"vessels", "schedule", "terminals"}
LongRuns == 1 .. MaxLongRuns
ShortRuns == 1 .. MaxShortRuns
TerminalIds == {1, 2}
VesselIds == {1, 2}
\* the promise a never-started family holds, and a property that does not exist
NeverPromise == 0
NoPromise == -1

VARIABLES
    cacheFlushDates,            \* family -> timestamp or Null
    updateProgress,             \* family -> the run whose promise is published
    promise,                    \* run -> family -> state of that run's promise
    matesByTerminalId,          \* terminal id -> sequence of mate ids
    vesselsById,                \* vessel id -> vessel
    previousCapacityByTerminal, \* route -> time -> capacity of one week before
    terminalsById,              \* terminal id -> terminal
    scheduleByTerminal,         \* route -> time -> crossing
    db,                         \* the Crossing table: a sequence of rows
    long,                       \* the invocations of updateCache
    short,                      \* the invocations of updateCrossings
    saves,                      \* the saveCapacity calls in flight or rejected
    server,                     \* position of the start-up code of server.ts
    calls,                      \* the accessor calls of the HTTP layer
    upstream,                   \* what the WSF API answers
    faults,                     \* failed requests so far
    now,                        \* wall clock, in seconds
    probe                       \* a capacity given to isEmpty, isFull or hasPassed, and the answers

vars == <<cacheFlushDates, updateProgress, promise, matesByTerminalId, vesselsById,
          previousCapacityByTerminal, terminalsById, scheduleByTerminal, db, long,
          short, saves, server, calls, upstream, faults, now, probe>>

cacheVars == <<matesByTerminalId, vesselsById, previousCapacityByTerminal,
               terminalsById, scheduleByTerminal>>

(* ------------------------- values and helpers ------------------------- *)
EmptyMap == [x \in {} |-> 0]

Put(m, k, v) == [x \in (DOMAIN m) \cup {k} |-> IF x = k THEN v ELSE m[x]]

Min(S) == CHOOSE x \in S : \A y \in S : x <= y

RECURSIVE SortedSeq(_)
SortedSeq(S) == IF S = {} THEN <<>> ELSE <<Min(S)>> \o SortedSeq(S \ {Min(S)})

\* the date conversion of ./date: a missing date gives null
wsfDateToTimestamp(d) == IF d = Null THEN Null ELSE d

NoCapacity ==
    [present |-> FALSE, departureId |-> 0, arrivalId |-> 0, departureTime |-> 0,
     departureDelta |-> Null, driveUpCapacity |-> 0, reservableCapacity |-> 0,
     totalCapacity |-> 0]

NoEstimate == [kind |-> "undefined", driveUpCapacity |-> 0, reservableCapacity |-> 0]

\* a vessel with none of its properties set; info.ada is written by the long
\* cycle, speed by both cycles, the other properties by the short cycle
NoVessel ==
    [known |-> FALSE, name |-> Null, departureDelta |-> Null, isAtDock |-> FALSE,
     dockedTime |-> Null, speed |-> Null, info |-> [ada |-> Null, crossing |-> Null]]

\* a crossing that was not built
NoCrossing ==
    [time |-> Null, hasPassed |-> FALSE, allowsPassengers |-> FALSE,
     allowsVehicles |-> FALSE, vessel |-> [id |-> Null, live |-> FALSE, snap |-> NoVessel],
     capacity |-> NoCapacity, estimate |-> NoEstimate]

\* no capacity is given to isEmpty, isFull or hasPassed
NoProbe ==
    [pc |-> "none", capacity |-> NoCapacity, isEmpty |-> FALSE, isFull |-> FALSE,
     hasPassed |-> FALSE, crossing |-> NoCrossing]

NoTerminal == [known |-> FALSE, name |-> Null, mates |-> <<>>]

Routes == {<<d, a>> : d \in TerminalIds, a \in TerminalIds} \ {<<t, t>> : t \in TerminalIds}

(* ------------------------------ the cache ------------------------------ *)
\* initMates and addMate
addMate(m, id, mateId) ==
    IF id \in DOMAIN m THEN [m EXCEPT ![id] = Append(@, mateId)]
    ELSE Put(m, id, <<mateId>>)

RECURSIVE BuildMates(_, _)
BuildMates(m, list) ==
    IF list = <<>> THEN m
    ELSE BuildMates(addMate(m, Head(list)[1], Head(list)[2]), Tail(list))

\* the order in which eachSeries walks the mates index: terminals by id, then
\* the mates of each in the order they were pushed
RECURSIVE PairsOf(_, _)
PairsOf(m, ids) ==
    IF ids = <<>> THEN <<>>
    ELSE [i \in 1 .. Len(m[Head(ids)]) |-> <<Head(ids), m[Head(ids)][i]>>]
             \o PairsOf(m, Tail(ids))

MatePairs(m) == PairsOf(m, SortedSeq(DOMAIN m))

\* initVessel and assignVessel, for the static attributes
\* _.assign replaces the properties it is given, the info object among them
assignVesselStatic(vs, id, vessel) ==
    [vs EXCEPT ![id] = [@ EXCEPT !.known = TRUE,
                                 !.name = vessel.name,
                                 !.speed = vessel.speedInKnots,
                                 !.info = [ada |-> vessel.ada, crossing |-> Null]]]

RECURSIVE AssignVessels(_, _)
AssignVessels(vs, list) ==
    IF list = <<>> THEN vs
    ELSE AssignVessels(assignVesselStatic(vs, Head(list).id, Head(list)), Tail(list))

\* initTerminal and assignTerminal
assignTerminalData(ts, id, name) ==
    [ts EXCEPT ![id] = [@ EXCEPT !.known = TRUE, !.name = name]]

assignTerminalMates(ts, id, mates) ==
    [ts EXCEPT ![id] = [@ EXCEPT !.known = TRUE, !.mates = mates]]

RECURSIVE AssignTerminals(_, _)
AssignTerminals(ts, list) ==
    IF list = <<>> THEN ts
    ELSE AssignTerminals(assignTerminalData(ts, Head(list).id, Head(list).name),
                         Tail(list))

\* getVessel with no clone: the cached object whatever resetDelay says
getVessel_live(id, resetDelay) ==
    [id |-> id, live |-> TRUE, snap |-> NoVessel]

\* getVessel: the cached object itself, or a deep copy of it with its delay reset
getVessel(id, resetDelay) ==
    IF resetDelay
    THEN [id |-> id, live |-> FALSE,
          snap |-> [vesselsById[id] EXCEPT !.departureDelta = Null]]
    ELSE [id |-> id, live |-> TRUE, snap |-> NoVessel]

\* one element of the schedule array of updateSchedule, the two lists of loading
\* rules exchanged
BuildCrossing_swapped(departure, seenVessels) ==
    LET time == wsfDateToTimestamp(departure.time)
    IN  [time |-> time,
         hasPassed |-> time < now,
         allowsPassengers |-> departure.rule \in {2, 3},
         allowsVehicles |-> departure.rule \in {1, 3},
         vessel |-> getVessel(departure.vessel, TRUE),
         capacity |-> NoCapacity,
         estimate |-> NoEstimate]

BuildCrossing(departure, seenVessels) ==
    LET time == wsfDateToTimestamp(departure.time)
        isFirstOfVessel == ~ (\E i \in 1 .. Len(seenVessels) :
                                  seenVessels[i] = departure.vessel)
    IN  [time |-> time,
         hasPassed |-> time < now,
         allowsPassengers |-> departure.rule \in {1, 3},
         allowsVehicles |-> departure.rule \in {2, 3},
         vessel |-> getVessel(departure.vessel, isFirstOfVessel),
         capacity |-> NoCapacity,
         estimate |-> NoEstimate]

\* every callback of the map runs up to its await of getVessel before any of
\* them pushes to seenVessels
BuildSchedule(times) == [i \in 1 .. Len(times) |-> BuildCrossing(times[i], <<>>)]

\* _.keyBy(schedule, 'time')
RECURSIVE keyBy(_, _)
keyBy(m, schedule) ==
    IF schedule = <<>> THEN m
    ELSE keyBy(Put(m, Head(schedule).time, Head(schedule)), Tail(schedule))

\* Crossing.findAll with a condition on departureTime
FindAll(lo, hi) == SelectSeq(db, LAMBDA row : lo <= row.departureTime /\ row.departureTime <= hi)

FindAllAfter(t) == SelectSeq(db, LAMBDA row : row.departureTime > t)

\* the _.setWith loop that fills the shadow map
RECURSIVE SetShadow(_, _)
SetShadow(prev, rows) ==
    IF rows = <<>> THEN prev
    ELSE LET row == Head(rows)
             route == <<row.departureId, row.arrivalId>>
         IN  SetShadow([prev EXCEPT ![route] = Put(@, row.departureTime, row)],
                       Tail(rows))

\* the loop of backfillCrossings: the schedule after the first n rows
RECURSIVE Backfill(_, _)
Backfill(sched, rows) ==
    IF rows = <<>> THEN sched
    ELSE LET row == Head(rows)
             route == <<row.departureId, row.arrivalId>>
         IN  IF row.departureTime \in DOMAIN sched[route]
             THEN Backfill([sched EXCEPT ![route][row.departureTime].capacity = row],
                           Tail(rows))
             ELSE sched

\* does the loop of backfillCrossings meet a row with no crossing (a TypeError)
RECURSIVE BackfillThrows(_, _)
BackfillThrows(sched, rows) ==
    IF rows = <<>> THEN FALSE
    ELSE LET row == Head(rows)
         IN  \/ row.departureTime \notin DOMAIN sched[<<row.departureId, row.arrivalId>>]
             \/ BackfillThrows(sched, Tail(rows))

(* --------------------------- the long cycle --------------------------- *)
NoSnapshot ==
    [mates |-> EmptyMap, schedule |-> EmptyMap, terminals |-> EmptyMap,
     vessels |-> EmptyMap, token |-> Null]

\* a run that ended keeps nothing of its local variables
Ended(run, pc, f) ==
    [run EXCEPT !.pc = pc, !.failedIn = f, !.pairs = <<>>, !.idx = 0, !.built = <<>>,
                !.acc = <<>>, !.awaited = NeverPromise,
                !.partWay = pc = "failed" /\ run.pc \notin {"v_flush", "s_flush", "t_flush"},
                !.before = IF pc = "failed" THEN @ ELSE NoSnapshot]

IdleLong ==
    [pc |-> "idle", origin |-> "none", pairs |-> <<>>, idx |-> 0, built |-> <<>>,
     acc |-> <<>>, awaited |-> NeverPromise, failedIn |-> "none", partWay |-> FALSE,
     skipped |-> {}, missing |-> {}, retryOf |-> "none",
     before |-> NoSnapshot]

\* the maps of the cache when a stage of a run starts (kept to compare with)
Snapshot(f) ==
    [mates |-> matesByTerminalId, schedule |-> scheduleByTerminal,
     terminals |-> terminalsById, vessels |-> vesselsById,
     token |-> cacheFlushDates[f]]

CanFail == faults < MaxFaults

\* what is kept of a run to state properties of it: the families whose flush date
\* was missing and the families it skipped
Noted(run, f, d, skip) ==
    [run EXCEPT !.missing = IF d = Null THEN @ \cup {f} ELSE @,
                !.skipped = IF skip THEN @ \cup {f} ELSE @]

\* the family that the run before run r gave up part-way, if it did
RetryOf(r) ==
    IF r - 1 \in LongRuns /\ long[r - 1].pc = "failed" /\ long[r - 1].partWay
    THEN long[r - 1].failedIn ELSE "none"

\* an await that rejects inside stage f of run r: the stage's promise rejects and
\* so does updateCache
Reject(r, f) ==
    /\ CanFail
    /\ faults' = faults + 1
    /\ promise' = [promise EXCEPT ![r][f] = "rejected"]
    /\ long' = [long EXCEPT ![r] = Ended(@, "failed", f)]
    /\ UNCHANGED <<cacheFlushDates, updateProgress, cacheVars, db, short, saves, server,
                   calls, upstream, now>>

\* a stage throws with no request failing (a TypeError)
Throw(r, f) ==
    /\ promise' = [promise EXCEPT ![r][f] = "rejected"]
    /\ long' = [long EXCEPT ![r] = Ended(@, "failed", f)]

\* updateCache is called: updateVessels runs up to its first request and its
\* promise is published
StartLong(r, origin) ==
    /\ long[r].pc = "idle"
    /\ \A q \in LongRuns : q < r => long[q].pc # "idle"
    /\ long' = [long EXCEPT ![r].pc = "v_flush", ![r].origin = origin,
                            ![r].retryOf = RetryOf(r),
                            ![r].before = Snapshot("vessels")]
    /\ updateProgress' = [updateProgress EXCEPT !.vessels = r]
    /\ promise' = [promise EXCEPT ![r].vessels = "pending"]

\* updateCache starting stage g with no await of the promise of stage f
NextStage_early(r, f, g, pc, run) ==
    /\ promise' = [promise EXCEPT ![r][g] = "pending"]
    /\ updateProgress' = [updateProgress EXCEPT ![g] = r]
    /\ long' = [long EXCEPT ![r] = [run EXCEPT !.pc = pc, !.before = Snapshot(g)]]

\* updateCache goes on from stage f, fulfilled, to stage g
NextStage(r, f, g, pc, run) ==
    /\ promise' = [promise EXCEPT ![r][f] = "fulfilled", ![r][g] = "pending"]
    /\ updateProgress' = [updateProgress EXCEPT ![g] = r]
    /\ long' = [long EXCEPT ![r] = [run EXCEPT !.pc = pc, !.before = Snapshot(g)]]

\* what the cacheflushdate request of family f answers: the date upstream holds,
\* or nothing
FlushAnswers(f) == {upstream.flush[f]} \cup (IF CanFail THEN {Null} ELSE {})

\* the skip rule with its comparison inverted
Unchanged_inverted(cacheFlushDate, f) == cacheFlushDate # cacheFlushDates[f]

\* the skip rule of the three refreshers
Unchanged(cacheFlushDate, f) == cacheFlushDate = cacheFlushDates[f]

updateVessels_flush(r) ==
    /\ long[r].pc = "v_flush"
    /\ \/ Reject(r, "vessels")
       \/ \E d \in FlushAnswers("vessels") :
            LET cacheFlushDate == wsfDateToTimestamp(d) IN
            /\ faults' = IF d = Null THEN faults + 1 ELSE faults
            /\ IF Unchanged(cacheFlushDate, "vessels")
               THEN /\ NextStage(r, "vessels", "schedule", "s_flush",
                              Noted(long[r], "vessels", d, TRUE))
                    /\ UNCHANGED cacheFlushDates
               ELSE /\ cacheFlushDates' = [cacheFlushDates EXCEPT !.vessels = cacheFlushDate]
                    /\ long' = [long EXCEPT ![r] =
                                  [Noted(@, "vessels", d, FALSE) EXCEPT !.pc = "v_fetch"]]
                    /\ UNCHANGED <<updateProgress, promise>>
            /\ UNCHANGED <<cacheVars, db, short, saves, server, calls, upstream, now>>
    /\ UNCHANGED probe

updateVessels_fetch(r) ==
    /\ long[r].pc = "v_fetch"
    /\ \/ Reject(r, "vessels")
       \/ /\ vesselsById' = AssignVessels(vesselsById, upstream.vessels)
          /\ NextStage(r, "vessels", "schedule", "s_flush", long[r])
          /\ UNCHANGED <<cacheFlushDates, matesByTerminalId, previousCapacityByTerminal,
                         terminalsById, scheduleByTerminal, db, short, saves, server,
                         calls, upstream, faults, now>>
    /\ UNCHANGED probe

updateSchedule_flush(r) ==
    /\ long[r].pc = "s_flush"
    /\ \/ Reject(r, "schedule")
       \/ \E d \in FlushAnswers("schedule") :
            LET cacheFlushDate == wsfDateToTimestamp(d) IN
            /\ faults' = IF d = Null THEN faults + 1 ELSE faults
            /\ IF Unchanged(cacheFlushDate, "schedule")
               THEN /\ NextStage(r, "schedule", "terminals", "t_flush",
                              Noted(long[r], "schedule", d, TRUE))
                    /\ UNCHANGED cacheFlushDates
               ELSE /\ cacheFlushDates' = [cacheFlushDates EXCEPT !.schedule = cacheFlushDate]
                    /\ long' = [long EXCEPT ![r] =
                                  [Noted(@, "schedule", d, FALSE) EXCEPT !.pc = "s_mates"]]
                    /\ UNCHANGED <<updateProgress, promise>>
            /\ UNCHANGED <<cacheVars, db, short, saves, server, calls, upstream, now>>
    /\ UNCHANGED probe

\* the mates answer with the index not emptied first: the pairs are added to
\* those it holds
updateSchedule_mates_merged(r) ==
    /\ long[r].pc = "s_mates"
    /\ LET mates == BuildMates(matesByTerminalId, upstream.mates)
           pairs == MatePairs(mates)
       IN  /\ matesByTerminalId' = mates
           /\ long' = [long EXCEPT ![r].pairs = pairs, ![r].idx = 1, ![r].pc = "s_today"]
           /\ UNCHANGED <<cacheFlushDates, updateProgress, promise, vesselsById,
                          previousCapacityByTerminal, terminalsById,
                          scheduleByTerminal, db, short, saves, server, calls,
                          upstream, faults, now>>
    /\ UNCHANGED probe

\* the mates answer: the index is rebuilt and the first schedule is requested
updateSchedule_mates(r) ==
    /\ long[r].pc = "s_mates"
    /\ \/ Reject(r, "schedule")
       \/ LET mates == BuildMates(EmptyMap, upstream.mates)
              pairs == MatePairs(mates)
          IN  /\ matesByTerminalId' = mates
              /\ long' = [long EXCEPT ![r].pairs = pairs, ![r].idx = 1,
                                      ![r].pc = IF pairs = <<>> THEN "s_backfill"
                                                ELSE "s_today"]
              /\ UNCHANGED <<cacheFlushDates, updateProgress, promise, vesselsById,
                             previousCapacityByTerminal, terminalsById,
                             scheduleByTerminal, db, short, saves, server, calls,
                             upstream, faults, now>>
    /\ UNCHANGED probe

\* after the schedule of pair idx is stored: the next pair, or the backfill
AfterPair(r) ==
    IF long[r].idx < Len(long[r].pairs)
    THEN [long[r] EXCEPT !.idx = @ + 1, !.pc = "s_today", !.built = <<>>]
    ELSE [long[r] EXCEPT !.pc = "s_backfill", !.built = <<>>]

\* the scheduletoday answer for pair idx
updateSchedule_today(r) ==
    /\ long[r].pc = "s_today"
    /\ \/ Reject(r, "schedule")
       \/ LET route == long[r].pairs[long[r].idx]
              schedule == BuildSchedule(upstream.schedule[route])
          IN  /\ IF previousCapacityByTerminal[route] = EmptyMap
                 THEN IF schedule = <<>>
                      THEN /\ Throw(r, "schedule")
                           /\ UNCHANGED scheduleByTerminal
                      ELSE /\ long' = [long EXCEPT ![r].pc = "s_shadow",
                                                   ![r].built = schedule]
                           /\ UNCHANGED <<promise, scheduleByTerminal>>
                 ELSE /\ scheduleByTerminal' =
                            [scheduleByTerminal EXCEPT ![route] = keyBy(EmptyMap, schedule)]
                      /\ long' = [long EXCEPT ![r] = AfterPair(r)]
                      /\ UNCHANGED promise
              /\ UNCHANGED <<cacheFlushDates, updateProgress, matesByTerminalId,
                             vesselsById, previousCapacityByTerminal, terminalsById, db,
                             short, saves, server, calls, upstream, faults, now>>
    /\ UNCHANGED probe

\* the rows of one week before arrive
updateSchedule_shadow(r) ==
    /\ long[r].pc = "s_shadow"
    /\ LET route == long[r].pairs[long[r].idx]
           schedule == long[r].built
           startTime == Head(schedule).time - Week
           endTime == schedule[Len(schedule)].time - Week
       IN  /\ previousCapacityByTerminal' =
                 SetShadow(previousCapacityByTerminal, FindAll(startTime, endTime))
           /\ scheduleByTerminal' =
                 [scheduleByTerminal EXCEPT ![route] = keyBy(EmptyMap, schedule)]
           /\ long' = [long EXCEPT ![r] = AfterPair(r)]
    /\ UNCHANGED <<cacheFlushDates, updateProgress, promise, matesByTerminalId,
                   vesselsById, terminalsById, db, short, saves, server, calls,
                   upstream, faults, now>>
    /\ UNCHANGED probe

\* backfillCrossings, then updateCache goes on to the terminals
updateSchedule_backfill(r) ==
    /\ long[r].pc = "s_backfill"
    /\ LET yesterday == now - Day
           crossings == FindAllAfter(yesterday)
       IN  /\ scheduleByTerminal' = Backfill(scheduleByTerminal, crossings)
           /\ IF BackfillThrows(scheduleByTerminal, crossings)
              THEN /\ Throw(r, "schedule")
                   /\ UNCHANGED updateProgress
              ELSE NextStage(r, "schedule", "terminals", "t_flush", long[r])
    /\ UNCHANGED <<cacheFlushDates, matesByTerminalId, vesselsById,
                   previousCapacityByTerminal, terminalsById, db, short, saves, server,
                   calls, upstream, faults, now>>
    /\ UNCHANGED probe

updateTerminals_flush(r) ==
    /\ long[r].pc = "t_flush"
    /\ \/ Reject(r, "terminals")
       \/ \E d \in FlushAnswers("terminals") :
            LET cacheFlushDate == wsfDateToTimestamp(d) IN
            /\ faults' = IF d = Null THEN faults + 1 ELSE faults
            /\ IF Unchanged(cacheFlushDate, "terminals")
               THEN /\ promise' = [promise EXCEPT ![r].terminals = "fulfilled"]
                    /\ long' = [long EXCEPT ![r] =
                                  Ended(Noted(@, "terminals", d, TRUE), "done", "none")]
                    /\ UNCHANGED cacheFlushDates
               ELSE /\ cacheFlushDates' =
                          [cacheFlushDates EXCEPT !.terminals = cacheFlushDate]
                    /\ long' = [long EXCEPT ![r] =
                                  [Noted(@, "terminals", d, FALSE) EXCEPT !.pc = "t_fetch"]]
                    /\ UNCHANGED promise
            /\ UNCHANGED <<updateProgress, cacheVars, db, short, saves, server, calls,
                           upstream, now>>
    /\ UNCHANGED probe

\* updateTerminals once getMates has answered: the route of the first mate is
\* requested, or there is nothing to do
Routes_begin(r) ==
    LET pairs == MatePairs(matesByTerminalId) IN
    IF pairs = <<>>
    THEN /\ promise' = [promise EXCEPT ![r].terminals = "fulfilled"]
         /\ long' = [long EXCEPT ![r] = Ended(@, "done", "none")]
    ELSE /\ long' = [long EXCEPT ![r].pc = "t_route", ![r].pairs = pairs,
                                 ![r].idx = 1, ![r].acc = <<>>]
         /\ UNCHANGED promise

\* getMates: wait for the schedule promise that is published now
getMates(r) ==
    LET q == updateProgress.schedule IN
    IF q \in LongRuns /\ promise[q].schedule = "fulfilled" THEN Routes_begin(r)
    ELSE IF q \in LongRuns /\ promise[q].schedule = "rejected" THEN Throw(r, "terminals")
    ELSE /\ long' = [long EXCEPT ![r].pc = "t_mates", ![r].awaited = q]
         /\ UNCHANGED promise

updateTerminals_fetch(r) ==
    /\ long[r].pc = "t_fetch"
    /\ \/ Reject(r, "terminals")
       \/ /\ terminalsById' = AssignTerminals(terminalsById, upstream.terminals)
          /\ getMates(r)
          /\ UNCHANGED <<cacheFlushDates, updateProgress, matesByTerminalId, vesselsById,
                         previousCapacityByTerminal, scheduleByTerminal, db, short,
                         saves, server, calls, upstream, faults, now>>
    /\ UNCHANGED probe

\* the schedule promise that getMates waited for is settled
updateTerminals_mates(r) ==
    /\ long[r].pc = "t_mates"
    /\ long[r].awaited \in LongRuns
    /\ \/ /\ promise[long[r].awaited].schedule = "fulfilled"
          /\ Routes_begin(r)
       \/ /\ promise[long[r].awaited].schedule = "rejected"
          /\ Throw(r, "terminals")
    /\ UNCHANGED <<cacheFlushDates, updateProgress, cacheVars, db, short, saves, server,
                   calls, upstream, faults, now>>
    /\ UNCHANGED probe

\* the routedetails answer for pair idx
updateTerminals_route(r) ==
    /\ long[r].pc = "t_route"
    /\ \/ Reject(r, "terminals")
       \/ LET pairs == long[r].pairs
              i == long[r].idx
              id == pairs[i][1]
              matesWithRoute == Append(long[r].acc, pairs[i][2])
              lastOfTerminal == i = Len(pairs) \/ pairs[i + 1][1] # id
          IN  /\ terminalsById' = IF lastOfTerminal
                                  THEN assignTerminalMates(terminalsById, id, matesWithRoute)
                                  ELSE terminalsById
              /\ IF i = Len(pairs)
                 THEN /\ promise' = [promise EXCEPT ![r].terminals = "fulfilled"]
                      /\ long' = [long EXCEPT ![r] = Ended(@, "done", "none")]
                 ELSE /\ long' = [long EXCEPT ![r].idx = i + 1,
                                     ![r].acc = IF lastOfTerminal THEN <<>>
                                                ELSE matesWithRoute]
                      /\ UNCHANGED promise
              /\ UNCHANGED <<cacheFlushDates, updateProgress, matesByTerminalId,
                             vesselsById, previousCapacityByTerminal, scheduleByTerminal,
                             db, short, saves, server, calls, upstream, faults, now>>
    /\ UNCHANGED probe

(* ------------------------------ accessors ------------------------------ *)
Accessors == {"getSchedule", "getVessels", "getVessel", "getTerminals", "getTerminal"}

\* the family an accessor reads
FamilyOf(acc) ==
    CASE acc = "getSchedule" -> "schedule"
      [] acc \in {"getVessels", "getVessel"} -> "vessels"
      [] OTHER -> "terminals"

\* the property of updateProgress an accessor awaits
AwaitedProperty(acc) ==
    CASE acc = "getSchedule" -> "schedule"
      [] acc \in {"getVessels", "getVessel"} -> "vesels"
      [] OTHER -> "terminals"

\* updateProgress[property]: undefined when there is no such property
Published(property) ==
    IF property \in DOMAIN updateProgress THEN updateProgress[property] ELSE NoPromise

InFlight(f) == {r \in LongRuns : promise[r][f] = "pending"}

\* promise q of family f is a promise that is settled already
Settled(q, f) == q \in LongRuns /\ promise[q][f] \in {"fulfilled", "rejected"}

CallIds == 1 .. MaxCalls

\* the arguments a caller passes: getVessel takes an id and resetDelay,
\* getSchedule the two terminals of a route
NoArgs == [id |-> Null, resetDelay |-> FALSE, departingId |-> Null, arrivingId |-> Null]

ArgsOf(acc) ==
    CASE acc = "getVessel" ->
            {[NoArgs EXCEPT !.id = id, !.resetDelay = b] : id \in VesselIds, b \in BOOLEAN}
      [] acc = "getSchedule" ->
            {[NoArgs EXCEPT !.departingId = d, !.arrivingId = a] :
                d \in TerminalIds, a \in TerminalIds}
      [] OTHER -> {NoArgs}

\* what an accessor hands back: a vessel (the cached object or a copy of it)
\* or the crossings of a route, each named by its key in the cached schedule
NoResult == [vessel |-> [id |-> Null, live |-> FALSE, snap |-> NoVessel], schedule |-> <<>>]

IdleCall ==
    [pc |-> "idle", acc |-> "none", args |-> NoArgs, awaited |-> NoPromise,
     inflight |-> {}, stale |-> FALSE, result |-> NoResult]

\* _.map(schedule): the values of an object in the order of its properties,
\* which for keys that are integers is their ascending order
Values(m) == LET keys == SortedSeq(DOMAIN m) IN [i \in 1 .. Len(keys) |-> m[keys[i]]]

\* the insertion of _.sortBy with the order turned round
RECURSIVE InsertByTime_descending(_, _)
InsertByTime_descending(sorted, crossing) ==
    IF sorted = <<>> THEN <<crossing>>
    ELSE IF crossing.time > Head(sorted).time THEN <<crossing>> \o sorted
    ELSE <<Head(sorted)>> \o InsertByTime_descending(Tail(sorted), crossing)

\* _.sortBy(list, 'time'), a stable sort: each element goes behind those that
\* are not later than it
RECURSIVE InsertByTime(_, _)
InsertByTime(sorted, crossing) ==
    IF sorted = <<>> THEN <<crossing>>
    ELSE IF crossing.time < Head(sorted).time THEN <<crossing>> \o sorted
    ELSE <<Head(sorted)>> \o InsertByTime(Tail(sorted), crossing)

RECURSIVE sortByTime(_, _)
sortByTime(sorted, list) ==
    IF list = <<>> THEN sorted
    ELSE sortByTime(InsertByTime(sorted, Head(list)), Tail(list))

\* getSchedule after its await: the crossings of the route, each named by its
\* key; a route with no schedule gives the empty list
getSchedule(departingId, arrivingId) ==
    LET schedule == IF <<departingId, arrivingId>> \in DOMAIN scheduleByTerminal
                    THEN scheduleByTerminal[<<departingId, arrivingId>>]
                    ELSE EmptyMap
        sorted == sortByTime(<<>>, Values(schedule))
    IN  [i \in 1 .. Len(sorted) |-> sorted[i].time]

\* the statements of an accessor after its await
Answer(acc, args) ==
    CASE acc = "getVessel" ->
            [NoResult EXCEPT !.vessel = getVessel(args.id, args.resetDelay)]
      [] acc = "getSchedule" ->
            [NoResult EXCEPT !.schedule = getSchedule(args.departingId, args.arrivingId)]
      [] OTHER -> NoResult

\* a request of the HTTP layer calls an accessor, which runs up to its await
Call(c, acc) ==
    /\ calls[c].pc # "waiting"
    /\ \E args \in ArgsOf(acc) :
          calls' = [calls EXCEPT ![c] = [pc |-> "waiting", acc |-> acc, args |-> args,
                                        awaited |-> Published(AwaitedProperty(acc)),
                                        inflight |-> InFlight(FamilyOf(acc)),
                                        stale |-> Settled(Published(AwaitedProperty(acc)),
                                                          FamilyOf(acc)),
                                        result |-> NoResult]]
    /\ UNCHANGED <<cacheFlushDates, updateProgress, promise, cacheVars, db, long, short,
                   saves, server, upstream, faults, now>>
    /\ UNCHANGED probe

\* the awaited value is no promise, or a settled one: the accessor answers from
\* the cache, or throws what the promise was rejected with
Return(c) ==
    /\ calls[c].pc = "waiting"
    /\ \/ /\ calls[c].awaited = NoPromise
          /\ calls' = [calls EXCEPT ![c].pc = "returned",
                                    ![c].result = Answer(calls[c].acc, calls[c].args)]
       \/ /\ calls[c].awaited \in LongRuns
          /\ promise[calls[c].awaited][FamilyOf(calls[c].acc)] = "fulfilled"
          /\ calls' = [calls EXCEPT ![c].pc = "returned",
                                    ![c].result = Answer(calls[c].acc, calls[c].args)]
       \/ /\ calls[c].awaited \in LongRuns
          /\ promise[calls[c].awaited][FamilyOf(calls[c].acc)] = "rejected"
          /\ calls' = [calls EXCEPT ![c].pc = "threw"]
    /\ UNCHANGED <<cacheFlushDates, updateProgress, promise, cacheVars, db, long, short,
                   saves, server, upstream, faults, now>>
    /\ UNCHANGED probe

(* --------------------------- the short cycle --------------------------- *)
\* values of the language that the code compares with ===
jsNumber(n) == [type |-> "number", val |-> n]
jsString(n) == [type |-> "string", val |-> n]
jsUndefined == [type |-> "undefined", val |-> 0]

RECURSIVE Digits(_)
Digits(n) == IF n < 10 THEN <<n>> ELSE Append(Digits(n \div 10), n % 10)

\* the order of strings: character by character
RECURSIVE LexLess(_, _)
LexLess(a, b) ==
    IF b = <<>> THEN FALSE
    ELSE IF a = <<>> THEN TRUE
    ELSE IF Head(a) # Head(b) THEN Head(a) < Head(b)
    ELSE LexLess(Tail(a), Tail(b))

\* _.keys: the property names of an object are strings
keys(schedule) == {jsString(t) : t \in DOMAIN schedule}

\* _.sortBy of a collection of strings
RECURSIVE sortBy(_)
sortBy(S) ==
    IF S = {} THEN <<>>
    ELSE LET least == CHOOSE x \in S :
                         \A y \in S \ {x} : LexLess(Digits(x.val), Digits(y.val))
         IN  <<least>> \o sortBy(S \ {least})

\* _.indexOf: the position (from 0) of the first element equal to value, or -1
indexOf(array, value) ==
    IF \E i \in 1 .. Len(array) : array[i] = value
    THEN (CHOOSE i \in 1 .. Len(array) :
              /\ array[i] = value
              /\ \A j \in 1 .. (i - 1) : array[j] # value) - 1
    ELSE -1

\* array[index], undefined outside the array
elementAt(array, index) ==
    IF index >= 0 /\ index < Len(array) THEN array[index + 1] ELSE jsUndefined

\* getPreviousCapacity looking one departure too far: the capacity of the
\* departure after the one it is asked about
getPreviousCapacity_next(sched, departureId, arrivalId, departureTime) ==
    LET schedule == sched[<<departureId, arrivalId>>]
        later == {t \in DOMAIN schedule : t > departureTime.val}
    IN  IF later = {} THEN NoCapacity ELSE schedule[Min(later)].capacity

getPreviousCapacity(sched, departureId, arrivalId, departureTime) ==
    LET schedule == sched[<<departureId, arrivalId>>]
        departureTimes == sortBy(keys(schedule))
        departureIndex == indexOf(departureTimes, departureTime)
    IN  IF departureIndex = 0 THEN NoCapacity
        ELSE LET previousDepartureTime == elementAt(departureTimes, departureIndex - 1)
             IN  IF /\ previousDepartureTime.type # "undefined"
                    /\ previousDepartureTime.val \in DOMAIN schedule
                 THEN schedule[previousDepartureTime.val].capacity
                 ELSE NoCapacity

\* hasPassed with no regard to the delay
hasPassed_scheduled(capacity) == capacity.departureTime < now

hasPassed(capacity) ==
    LET estimatedTime ==
            IF capacity.departureDelta # Null /\ capacity.departureDelta # 0
            THEN capacity.departureTime + capacity.departureDelta
            ELSE capacity.departureTime
    IN  estimatedTime < now

\* isEmpty with <= for ===
isEmpty_atMost(capacity) ==
    capacity.driveUpCapacity + capacity.reservableCapacity <= capacity.totalCapacity

isEmpty(capacity) ==
    capacity.driveUpCapacity + capacity.reservableCapacity = capacity.totalCapacity

isFull(capacity) == capacity.driveUpCapacity = 0 /\ capacity.reservableCapacity = 0

\* the model that recordCapacity builds from one reading
BuildCapacity(reading) ==
    [present |-> TRUE,
     departureId |-> reading.departureId,
     arrivalId |-> reading.arrivalId,
     departureTime |-> wsfDateToTimestamp(reading.time),
     departureDelta |-> IF reading.vessel \in VesselIds /\ vesselsById[reading.vessel].known
                        THEN vesselsById[reading.vessel].departureDelta ELSE Null,
     driveUpCapacity |-> reading.driveUp,
     reservableCapacity |-> reading.reservable,
     totalCapacity |-> reading.total]

HasCrossing(sched, capacity) ==
    capacity.departureTime \in DOMAIN sched[<<capacity.departureId, capacity.arrivalId>>]

\* saveCapacity up to its await of findOne
NewSave(capacity) == [pc |-> "find", capacity |-> capacity, row |-> 0]

\* the callbacks of recordCapacity when only the one of the first reading has run
Attach_first(st, readings) ==
    IF readings = <<>> THEN st
    ELSE LET capacity == BuildCapacity(Head(readings))
             route == <<capacity.departureId, capacity.arrivalId>>
         IN  IF HasCrossing(st.sched, capacity)
             THEN [st EXCEPT !.sched[route][capacity.departureTime].capacity = capacity,
                             !.started = Append(@, NewSave(capacity))]
             ELSE [st EXCEPT !.thrown = @ + 1]

\* the callbacks of recordCapacity with the save started before the reading is
\* attached, and the reading attached only once the save is done
RECURSIVE Attach_afterSave(_, _)
Attach_afterSave(st, readings) ==
    IF readings = <<>> THEN st
    ELSE LET capacity == BuildCapacity(Head(readings))
         IN  IF HasCrossing(st.sched, capacity)
             THEN Attach_afterSave([st EXCEPT !.started = Append(@, NewSave(capacity))],
                                   Tail(readings))
             ELSE Attach_afterSave([st EXCEPT !.thrown = @ + 1], Tail(readings))

\* the callbacks of recordCapacity up to their await: the reading is attached to
\* its crossing and its save is started; with no crossing, crossing.capacity =
\* capacity throws a TypeError and the promise of the callback, which nothing
\* awaits, rejects
RECURSIVE Attach(_, _)
Attach(st, readings) ==
    IF readings = <<>> THEN st
    ELSE LET capacity == BuildCapacity(Head(readings))
             route == <<capacity.departureId, capacity.arrivalId>>
         IN  IF HasCrossing(st.sched, capacity)
             THEN Attach([st EXCEPT
                             !.sched[route][capacity.departureTime].capacity = capacity,
                             !.started = Append(@, NewSave(capacity))],
                         Tail(readings))
             ELSE Attach([st EXCEPT !.thrown = @ + 1], Tail(readings))

\* the condition of the correction of the previous sailing
Superseded(previousCapacity, capacity) ==
    /\ previousCapacity.present
    /\ ~ hasPassed(previousCapacity)
    /\ ~ isFull(previousCapacity)
    /\ ~ isEmpty(capacity)

\* the callbacks of recordCapacity after their await, in the order of the readings
RECURSIVE Correct(_, _)
Correct(st, readings) ==
    IF readings = <<>> THEN st
    ELSE LET capacity == BuildCapacity(Head(readings))
             route == <<capacity.departureId, capacity.arrivalId>>
             previousCapacity ==
                 getPreviousCapacity(st.sched, capacity.departureId, capacity.arrivalId,
                                     jsNumber(capacity.departureTime))
             corrected == [previousCapacity EXCEPT !.driveUpCapacity = 0,
                                                   !.reservableCapacity = 0]
         IN  IF HasCrossing(st.sched, capacity) /\ Superseded(previousCapacity, capacity)
             THEN Correct([st EXCEPT
                              !.sched[route][previousCapacity.departureTime].capacity =
                                  corrected,
                              !.started = Append(@, NewSave(corrected))],
                          Tail(readings))
             ELSE Correct(st, Tail(readings))

\* the estimate of one crossing
Estimate(prev, route, crossing) ==
    LET previousDepartureTime == crossing.time - Week IN
    IF previousDepartureTime \in DOMAIN prev[route]
    THEN [kind |-> "value",
          driveUpCapacity |-> prev[route][previousDepartureTime].driveUpCapacity,
          reservableCapacity |-> prev[route][previousDepartureTime].reservableCapacity]
    ELSE [kind |-> "null", driveUpCapacity |-> 0, reservableCapacity |-> 0]

updateEstimates(sched) ==
    [route \in DOMAIN sched |->
        [t \in DOMAIN sched[route] |->
            [sched[route][t] EXCEPT
                !.estimate = Estimate(previousCapacityByTerminal, route, sched[route][t])]]]

\* recordTiming with a delay that is never computed again
TimedVessel_sticky(previous, location) ==
    [previous EXCEPT
        !.known = TRUE,
        !.dockedTime = IF location.atDock /\ ~ previous.isAtDock THEN now ELSE Null,
        !.isAtDock = location.atDock,
        !.speed = location.speed,
        !.info = [previous.info EXCEPT !.crossing = location.etaBasis]]

\* what recordTiming assigns for one vessel of the locations answer
TimedVessel(previous, location) ==
    LET departedTime == wsfDateToTimestamp(location.leftDock)
        departureTime == wsfDateToTimestamp(location.scheduled)
        known == departureTime # Null /\ departureTime # 0
                    /\ departedTime # Null /\ departedTime # 0
    IN  [previous EXCEPT
            !.known = TRUE,
            !.departureDelta = IF known THEN departedTime - departureTime
                               ELSE previous.departureDelta,
            !.dockedTime = IF location.atDock /\ ~ previous.isAtDock THEN now ELSE Null,
            !.isAtDock = location.atDock,
            !.speed = location.speed,
            !.info = [previous.info EXCEPT !.crossing = location.etaBasis]]

\* reading previousVessel.isAtDock of a vessel that is not in the cache throws
TimingThrows(vs, location) == location.atDock /\ ~ vs[location.id].known

\* the loop of recordTiming, which stops where it throws
RECURSIVE RecordTimings(_, _)
RecordTimings(vs, locations) ==
    IF locations = <<>> THEN vs
    ELSE LET location == Head(locations) IN
         IF TimingThrows(vs, location) THEN vs
         ELSE RecordTimings([vs EXCEPT ![location.id] = TimedVessel(@, location)],
                            Tail(locations))

RECURSIVE RecordTimingsThrows(_, _)
RecordTimingsThrows(vs, locations) ==
    IF locations = <<>> THEN FALSE
    ELSE LET location == Head(locations) IN
         \/ TimingThrows(vs, location)
         \/ RecordTimingsThrows([vs EXCEPT ![location.id] = TimedVessel(@, location)],
                                Tail(locations))

\* unhandled: the callbacks of the run whose promise rejected with nothing to
\* handle it
IdleShort == [pc |-> "idle", origin |-> "none", unhandled |-> 0]

\* updateCrossings is called: recordTiming runs up to its request
StartShort(s, origin) ==
    /\ short[s].pc = "idle"
    /\ \A q \in ShortRuns : q < s => short[q].pc # "idle"
    /\ short' = [short EXCEPT ![s] = [IdleShort EXCEPT !.pc = "timing",
                                                        !.origin = origin]]

\* a request of updateCrossings fails, and updateCrossings with it
RejectShort(s) ==
    /\ CanFail
    /\ faults' = faults + 1
    /\ short' = [short EXCEPT ![s].pc = "failed"]
    /\ UNCHANGED <<cacheFlushDates, updateProgress, promise, cacheVars, db, long, saves,
                   server, calls, upstream, now>>

\* the vessellocations answer: recordTiming, then recordCapacity up to its request
recordTiming(s) ==
    /\ short[s].pc = "timing"
    /\ \/ RejectShort(s)
       \/ /\ vesselsById' = RecordTimings(vesselsById, upstream.locations)
          /\ short' = [short EXCEPT ![s].pc =
                          IF RecordTimingsThrows(vesselsById, upstream.locations)
                          THEN "failed" ELSE "capacity"]
          /\ UNCHANGED <<cacheFlushDates, updateProgress, promise, matesByTerminalId,
                         previousCapacityByTerminal, terminalsById, scheduleByTerminal,
                         db, long, saves, server, calls, upstream, faults, now>>
    /\ UNCHANGED probe

\* the terminalsailingspace answer: the callbacks of recordCapacity, first all of
\* them up to their await, then their continuations, then updateEstimates
recordCapacity(s) ==
    /\ short[s].pc = "capacity"
    /\ \/ RejectShort(s)
       \/ LET attached == Attach([sched |-> scheduleByTerminal, started |-> <<>>,
                                  thrown |-> 0],
                                 upstream.spaces)
              corrected == Correct(attached, upstream.spaces)
          IN  /\ Len(saves) + Len(corrected.started) <= MaxSaves
              /\ scheduleByTerminal' = updateEstimates(corrected.sched)
              /\ saves' = saves \o corrected.started
              /\ short' = [short EXCEPT ![s].pc = "done",
                                        ![s].unhandled = corrected.thrown]
              /\ UNCHANGED <<cacheFlushDates, updateProgress, promise, matesByTerminalId,
                             vesselsById, previousCapacityByTerminal, terminalsById, db,
                             long, server, calls, upstream, faults, now>>
    /\ UNCHANGED probe

SameKey(row, capacity) ==
    /\ row.arrivalId = capacity.arrivalId
    /\ row.departureId = capacity.departureId
    /\ row.departureTime = capacity.departureTime

Without(seq, i) == SubSeq(seq, 1, i - 1) \o SubSeq(seq, i + 1, Len(seq))

\* Crossing.findOne answers: saveCapacity starts an update of the row it found, or
\* a create
saveCapacity_found(i) ==
    /\ i \in 1 .. Len(saves)
    /\ saves[i].pc = "find"
    /\ LET matching == {k \in 1 .. Len(db) : SameKey(db[k], saves[i].capacity)}
       IN  saves' = [saves EXCEPT ![i] =
                        IF matching # {} THEN [@ EXCEPT !.pc = "update", !.row = Min(matching)]
                        ELSE [@ EXCEPT !.pc = "create"]]
    /\ UNCHANGED <<cacheFlushDates, updateProgress, promise, cacheVars, db, long, short,
                   server, calls, upstream, faults, now>>
    /\ UNCHANGED probe

\* the update or the create is done
saveCapacity_written(i) ==
    /\ i \in 1 .. Len(saves)
    /\ \/ /\ saves[i].pc = "update"
          /\ db' = [db EXCEPT ![saves[i].row] = saves[i].capacity]
       \/ /\ saves[i].pc = "create"
          /\ db' = Append(db, saves[i].capacity)
    /\ saves' = Without(saves, i)
    /\ UNCHANGED <<cacheFlushDates, updateProgress, promise, cacheVars, long, short,
                   server, calls, upstream, faults, now>>
    /\ UNCHANGED probe

\* findOne, update or create fails: saveCapacity rejects, and nothing awaits it
saveCapacity_failed(i) ==
    /\ i \in 1 .. Len(saves)
    /\ saves[i].pc \in {"find", "update", "create"}
    /\ CanFail
    /\ faults' = faults + 1
    /\ saves' = [saves EXCEPT ![i].pc = "failed"]
    /\ UNCHANGED <<cacheFlushDates, updateProgress, promise, cacheVars, db, long, short,
                   server, calls, upstream, now>>
    /\ UNCHANGED probe

(* ------------------------------ server.ts ------------------------------ *)
\* await Promise.all([updateLong(), updateShort()])
Startup ==
    /\ server = "init"
    /\ server' = "starting"
    /\ StartLong(1, "startup")
    /\ StartShort(1, "startup")
    /\ UNCHANGED <<cacheFlushDates, cacheVars, db, saves, calls, upstream, faults, now>>
    /\ UNCHANGED probe

\* both first cycles are done: the two setInterval calls
ArmTimers ==
    /\ server = "starting"
    /\ long[1].pc = "done"
    /\ short[1].pc = "done"
    /\ server' = "running"
    /\ UNCHANGED <<cacheFlushDates, updateProgress, promise, cacheVars, db, long, short,
                   saves, calls, upstream, faults, now>>
    /\ UNCHANGED probe

\* one of the first cycles failed: Promise.all rejects and the start-up code ends
\* before its setInterval calls
StartupRejected ==
    /\ server = "starting"
    /\ long[1].pc = "failed" \/ short[1].pc = "failed"
    /\ server' = "failed"
    /\ UNCHANGED <<cacheFlushDates, updateProgress, promise, cacheVars, db, long, short,
                   saves, calls, upstream, faults, now>>
    /\ UNCHANGED probe

\* setInterval(updateLong, 30 * 1000) fires
LongTick(r) ==
    /\ server = "running"
    /\ StartLong(r, "tick")
    /\ UNCHANGED <<cacheFlushDates, cacheVars, db, short, saves, server, calls, upstream,
                   faults, now>>
    /\ UNCHANGED probe

\* setInterval(updateShort, 10 * 1000) fires
ShortTick(s) ==
    /\ server = "running"
    /\ StartShort(s, "tick")
    /\ UNCHANGED <<cacheFlushDates, updateProgress, promise, cacheVars, db, long, saves,
                   server, calls, upstream, faults, now>>
    /\ UNCHANGED probe

\* upstream publishes new data of family f, with a new flush date
UpstreamFlush(f) ==
    /\ upstream.flush[f] < MaxToken
    /\ upstream' = [upstream EXCEPT !.flush[f] = @ + 1]
    /\ UNCHANGED <<cacheFlushDates, updateProgress, promise, cacheVars, db, long, short,
                   saves, server, calls, faults, now>>
    /\ UNCHANGED probe

\* the wall clock goes on
Advance ==
    /\ now < Now0 + MaxNow * 60
    /\ now' = now + 60
    /\ UNCHANGED <<cacheFlushDates, updateProgress, promise, cacheVars, db, long, short,
                   saves, server, calls, upstream, faults>>
    /\ UNCHANGED probe

(* --------------------------- specifications --------------------------- *)
Departure(t, v, rule) == [time |-> t, vessel |-> v, rule |-> rule]

Reading(d, a, t, v, driveUp, reservable, total) ==
    [departureId |-> d, arrivalId |-> a, time |-> t, vessel |-> v, driveUp |-> driveUp,
     reservable |-> reservable, total |-> total]

Row(d, a, t, driveUp, reservable, total) ==
    [present |-> TRUE, departureId |-> d, arrivalId |-> a, departureTime |-> t,
     departureDelta |-> Null, driveUpCapacity |-> driveUp,
     reservableCapacity |-> reservable, totalCapacity |-> total]

\* what the WSF API answers in the runs of Spec
Upstream ==
    [vessels |-> <<[id |-> 1, name |-> 1, speedInKnots |-> 18, ada |-> 1],
                   [id |-> 2, name |-> 1, speedInKnots |-> 18, ada |-> 1]>>,
     mates |-> <<<<1, 2>>, <<2, 1>>>>,
     schedule |-> [route \in Routes |->
                     IF route = <<1, 2>>
                     THEN <<Departure(T1, 1, 3), Departure(T2, 1, 1)>>
                     ELSE <<Departure(T1, 2, 2)>>],
     terminals |-> <<[id |-> 1, name |-> 1], [id |-> 2, name |-> 1]>>,
     locations |-> <<[id |-> 1, atDock |-> FALSE, leftDock |-> T1 + 5, scheduled |-> T1,
                      speed |-> 12, etaBasis |-> 1]>>,
     spaces |-> <<Reading(1, 2, T2, 1, 0, 5, 10)>>,
     flush |-> [f \in Families |-> 1]]

\* the module as it is loaded, before the start-up code of server.ts runs
InitCache ==
    /\ cacheFlushDates = [f \in Families |-> Null]
    /\ updateProgress = [f \in Families |-> NeverPromise]
    /\ promise = [r \in LongRuns |-> [f \in Families |-> "none"]]
    /\ matesByTerminalId = EmptyMap
    /\ vesselsById = [v \in VesselIds |-> NoVessel]
    /\ previousCapacityByTerminal = [route \in Routes |-> EmptyMap]
    /\ terminalsById = [t \in TerminalIds |-> NoTerminal]
    /\ scheduleByTerminal = [route \in Routes |-> EmptyMap]
    /\ long = [r \in LongRuns |-> IdleLong]
    /\ short = [s \in ShortRuns |-> IdleShort]
    /\ saves = <<>>
    /\ server = "init"
    /\ calls = [c \in CallIds |-> IdleCall]
    /\ faults = 0

Init ==
    /\ InitCache
    /\ upstream = Upstream
    /\ db = <<Row(1, 2, T1 - Week, 3, 0, 10)>>
    /\ now = Now0
    /\ probe = NoProbe

Next ==
    \/ Startup
    \/ ArmTimers
    \/ StartupRejected
    \/ \E r \in LongRuns : LongTick(r)
    \/ \E s \in 1 .. MaxSpecRuns : ShortTick(s)
    \/ \E r \in LongRuns : updateVessels_flush(r)
    \/ \E r \in LongRuns : updateVessels_fetch(r)
    \/ \E r \in LongRuns : updateSchedule_flush(r)
    \/ \E r \in LongRuns : updateSchedule_mates(r)
    \/ \E r \in LongRuns : updateSchedule_today(r)
    \/ \E r \in LongRuns : updateSchedule_shadow(r)
    \/ \E r \in LongRuns : updateSchedule_backfill(r)
    \/ \E r \in LongRuns : updateTerminals_flush(r)
    \/ \E r \in LongRuns : updateTerminals_fetch(r)
    \/ \E r \in LongRuns : updateTerminals_mates(r)
    \/ \E r \in LongRuns : updateTerminals_route(r)
    \/ \E s \in ShortRuns : recordTiming(s)
    \/ \E s \in ShortRuns : recordCapacity(s)
    \/ \E i \in 1 .. MaxSaves : saveCapacity_found(i)
    \/ \E i \in 1 .. MaxSaves : saveCapacity_written(i)
    \/ \E i \in 1 .. MaxSaves : saveCapacity_failed(i)

Spec == Init /\ [][Next]_vars

\* The server after a start-up with no failure, its timers armed: the first
\* short cycle ended before the first schedule was stored
InitRunning ==
    /\ upstream = Upstream
    /\ db = <<Row(1, 2, T1 - Week, 3, 0, 10)>>
    /\ now = Now0
    /\ faults = 0
    /\ cacheFlushDates = [f \in Families |-> wsfDateToTimestamp(upstream.flush[f])]
    /\ updateProgress = [f \in Families |-> 1]
    /\ promise = [r \in LongRuns |->
                    [f \in Families |-> IF r = 1 THEN "fulfilled" ELSE "none"]]
    /\ matesByTerminalId = BuildMates(EmptyMap, upstream.mates)
    /\ vesselsById = AssignVessels(
                        RecordTimings([v \in VesselIds |-> NoVessel], upstream.locations),
                        upstream.vessels)
    /\ previousCapacityByTerminal =
          SetShadow([route \in Routes |-> EmptyMap], FindAll(T1 - Week, T2 - Week))
    /\ scheduleByTerminal =
          [route \in Routes |-> keyBy(EmptyMap, BuildSchedule(upstream.schedule[route]))]
    /\ terminalsById =
          assignTerminalMates(
              assignTerminalMates(
                  AssignTerminals([t \in TerminalIds |-> NoTerminal], upstream.terminals),
                  1, <<2>>),
              2, <<1>>)
    /\ long = [r \in LongRuns |->
                 IF r = 1 THEN [IdleLong EXCEPT !.pc = "done", !.origin = "startup"]
                 ELSE IdleLong]
    /\ short = [s \in ShortRuns |->
                  IF s = 1 THEN [IdleShort EXCEPT !.pc = "done", !.origin = "startup"]
                  ELSE IdleShort]
    /\ saves = <<>>
    /\ server = "running"
    /\ calls = [c \in CallIds |-> IdleCall]
    /\ probe = NoProbe

\* the long cycle alone, driven by its timer
NextLong ==
    \/ \E r \in LongRuns : LongTick(r)
    \/ \E r \in LongRuns : updateVessels_flush(r)
    \/ \E r \in LongRuns : updateVessels_fetch(r)
    \/ \E r \in LongRuns : updateSchedule_flush(r)
    \/ \E r \in LongRuns : updateSchedule_mates(r)
    \/ \E r \in LongRuns : updateSchedule_today(r)
    \/ \E r \in LongRuns : updateSchedule_shadow(r)
    \/ \E r \in LongRuns : updateSchedule_backfill(r)
    \/ \E r \in LongRuns : updateTerminals_flush(r)
    \/ \E r \in LongRuns : updateTerminals_fetch(r)
    \/ \E r \in LongRuns : updateTerminals_mates(r)
    \/ \E r \in LongRuns : updateTerminals_route(r)
    \/ \E f \in Families : UpstreamFlush(f)

SpecLong == InitRunning /\ [][NextLong]_vars

\* upstream publishes a schedule with no sailings from terminal 2 to terminal 1:
\* the mates list loses the pair, and the schedule has a new flush date
RouteCloses ==
    /\ upstream.mates = Upstream.mates
    /\ upstream' = [upstream EXCEPT !.mates = <<<<1, 2>>>>, !.flush.schedule = @ + 1]
    /\ UNCHANGED <<cacheFlushDates, updateProgress, promise, cacheVars, db, long, short,
                   saves, server, calls, faults, now>>
    /\ UNCHANGED probe

\* the long cycle while a route is closed
NextMates ==
    \/ \E r \in LongRuns : LongTick(r)
    \/ \E r \in LongRuns : updateVessels_flush(r)
    \/ \E r \in LongRuns : updateVessels_fetch(r)
    \/ \E r \in LongRuns : updateSchedule_flush(r)
    \/ \E r \in LongRuns : updateSchedule_mates(r)
    \/ \E r \in LongRuns : updateSchedule_today(r)
    \/ \E r \in LongRuns : updateSchedule_shadow(r)
    \/ \E r \in LongRuns : updateSchedule_backfill(r)
    \/ \E r \in LongRuns : updateTerminals_flush(r)
    \/ \E r \in LongRuns : updateTerminals_fetch(r)
    \/ \E r \in LongRuns : updateTerminals_mates(r)
    \/ \E r \in LongRuns : updateTerminals_route(r)
    \/ RouteCloses

SpecMates == InitRunning /\ [][NextMates]_vars

\* the long cycle and the requests of the HTTP layer
NextRead ==
    \/ \E r \in LongRuns : LongTick(r)
    \/ \E r \in LongRuns : updateVessels_flush(r)
    \/ \E r \in LongRuns : updateVessels_fetch(r)
    \/ \E r \in LongRuns : updateSchedule_flush(r)
    \/ \E r \in LongRuns : updateSchedule_mates(r)
    \/ \E r \in LongRuns : updateSchedule_today(r)
    \/ \E r \in LongRuns : updateSchedule_shadow(r)
    \/ \E r \in LongRuns : updateSchedule_backfill(r)
    \/ \E r \in LongRuns : updateTerminals_flush(r)
    \/ \E r \in LongRuns : updateTerminals_fetch(r)
    \/ \E r \in LongRuns : updateTerminals_mates(r)
    \/ \E r \in LongRuns : updateTerminals_route(r)
    \/ \E c \in CallIds, acc \in Accessors : Call(c, acc)
    \/ \E c \in CallIds : Return(c)

SpecRead == InitRunning /\ [][NextRead]_vars

\* app.listen comes before the first cycles are started, in the same
\* continuation: a request is handled once the start-up code has started them
Request(c, acc) ==
    /\ server # "init"
    /\ Call(c, acc)

\* the steps of the refreshes of the first long cycle: with one run getMates
\* finds the schedule promise of that run fulfilled, and the step that waits
\* for another run's promise does not occur
RefreshStep ==
    \/ \E r \in LongRuns : updateVessels_flush(r)
    \/ \E r \in LongRuns : updateVessels_fetch(r)
    \/ \E r \in LongRuns : updateSchedule_flush(r)
    \/ \E r \in LongRuns : updateSchedule_mates(r)
    \/ \E r \in LongRuns : updateSchedule_today(r)
    \/ \E r \in LongRuns : updateSchedule_shadow(r)
    \/ \E r \in LongRuns : updateSchedule_backfill(r)
    \/ \E r \in LongRuns : updateTerminals_flush(r)
    \/ \E r \in LongRuns : updateTerminals_fetch(r)
    \/ \E r \in LongRuns : updateTerminals_route(r)

\* the module as it is loaded, with upstream requests that all succeed
InitBoot ==
    /\ cacheFlushDates = [f \in Families |-> Null]
    /\ updateProgress = [f \in Families |-> NeverPromise]
    /\ promise = [r \in LongRuns |-> [f \in Families |-> "none"]]
    /\ matesByTerminalId = EmptyMap
    /\ vesselsById = [v \in VesselIds |-> NoVessel]
    /\ previousCapacityByTerminal = [route \in Routes |-> EmptyMap]
    /\ terminalsById = [t \in TerminalIds |-> NoTerminal]
    /\ scheduleByTerminal = [route \in Routes |-> EmptyMap]
    /\ long = [r \in LongRuns |-> IdleLong]
    /\ short = [s \in ShortRuns |-> IdleShort]
    /\ saves = <<>>
    /\ server = "init"
    /\ calls = [c \in CallIds |-> IdleCall]
    /\ faults = MaxFaults
    /\ upstream = Upstream
    /\ db = <<Row(1, 2, T1 - Week, 3, 0, 10)>>
    /\ now = Now0
    /\ probe = NoProbe

\* the start of the server, its first long cycle and the requests that come in
\* meanwhile
NextBoot ==
    \/ Startup
    \/ RefreshStep
    \/ \E c \in CallIds, acc \in Accessors : Request(c, acc)
    \/ \E c \in CallIds : Return(c)

SpecBoot == InitBoot /\ [][NextBoot]_vars

\* the event loop runs every continuation that is ready: a refresh that was
\* started goes on to its end, and an accessor whose awaited promise is settled
\* is resumed
FairBoot ==
    /\ WF_vars(Startup)
    /\ WF_vars(RefreshStep)
    /\ \A c \in CallIds : WF_vars(Return(c))

SpecBootFair == SpecBoot /\ FairBoot

\* the long cycle and getSchedule requests while the clock goes on
NextClock ==
    \/ Advance
    \/ \E r \in LongRuns : LongTick(r)
    \/ RefreshStep
    \/ \E r \in LongRuns : updateTerminals_mates(r)
    \/ \E c \in CallIds : Call(c, "getSchedule")
    \/ \E c \in CallIds : Return(c)

SpecClock == InitRunning /\ [][NextClock]_vars

\* the state InitRunning describes, to be found among the states of Spec
Running ==
    /\ server = "running"
    /\ long[1].pc = "done"
    /\ short[1].pc = "done"
    /\ \A r \in LongRuns \ {1} : long[r].pc = "idle"
    /\ \A s \in ShortRuns \ {1} : short[s].pc = "idle"
    /\ saves = <<>>
    /\ faults = 0
    /\ vesselsById = AssignVessels(
                        RecordTimings([v \in VesselIds |-> NoVessel], upstream.locations),
                        upstream.vessels)
    /\ previousCapacityByTerminal =
          SetShadow([route \in Routes |-> EmptyMap], FindAll(T1 - Week, T2 - Week))
    /\ \A route \in Routes : \A t \in DOMAIN scheduleByTerminal[route] :
          scheduleByTerminal[route][t].estimate = NoEstimate
    /\ DOMAIN scheduleByTerminal[<<1, 2>>] = {T1, T2}
    /\ terminalsById[1].mates = <<2>> /\ terminalsById[2].mates = <<1>>
    /\ cacheFlushDates = [f \in Families |-> 1]

\* the terminalsailingspace answers of the short cycle's runs: the second sailing
\* of route (1, 2) alone, both sailings of the route, a sailing that is not in
\* the schedule, that sailing followed by one that is
Feeds ==
    {<<Reading(1, 2, T2, 1, 0, 5, 10)>>,
     <<Reading(1, 2, T1, 1, 2, 1, 10), Reading(1, 2, T2, 1, 4, 5, 10)>>,
     <<Reading(2, 1, T2, 2, 1, 1, 10)>>,
     <<Reading(2, 1, T2, 2, 1, 1, 10), Reading(1, 2, T2, 1, 0, 5, 10)>>}

\* The server restarted during the day: as InitRunning, with a row of today's
\* first sailing of route (1, 2) in the table, which the backfill attached
InitShort ==
    /\ \E feed \in Feeds : upstream = [Upstream EXCEPT !.spaces = feed]
    /\ db = <<Row(1, 2, T1 - Week, 3, 0, 10), Row(1, 2, T1, 2, 1, 10)>>
    /\ now = Now0
    /\ faults = 0
    /\ cacheFlushDates = [f \in Families |-> wsfDateToTimestamp(upstream.flush[f])]
    /\ updateProgress = [f \in Families |-> 1]
    /\ promise = [r \in LongRuns |->
                    [f \in Families |-> IF r = 1 THEN "fulfilled" ELSE "none"]]
    /\ matesByTerminalId = BuildMates(EmptyMap, upstream.mates)
    /\ vesselsById = AssignVessels(
                        RecordTimings([v \in VesselIds |-> NoVessel], upstream.locations),
                        upstream.vessels)
    /\ previousCapacityByTerminal =
          SetShadow([route \in Routes |-> EmptyMap], FindAll(T1 - Week, T2 - Week))
    /\ scheduleByTerminal =
          Backfill([route \in Routes |->
                       keyBy(EmptyMap, BuildSchedule(upstream.schedule[route]))],
                   FindAllAfter(now - Day))
    /\ terminalsById =
          assignTerminalMates(
              assignTerminalMates(
                  AssignTerminals([t \in TerminalIds |-> NoTerminal], upstream.terminals),
                  1, <<2>>),
              2, <<1>>)
    /\ long = [r \in LongRuns |->
                 IF r = 1 THEN [IdleLong EXCEPT !.pc = "done", !.origin = "startup"]
                 ELSE IdleLong]
    /\ short = [s \in ShortRuns |->
                  IF s = 1 THEN [IdleShort EXCEPT !.pc = "done", !.origin = "startup"]
                  ELSE IdleShort]
    /\ saves = <<>>
    /\ server = "running"
    /\ calls = [c \in CallIds |-> IdleCall]
    /\ probe = NoProbe

\* the short cycle alone, driven by its timer, and the writes it starts
NextShort ==
    \/ \E s \in ShortRuns : ShortTick(s)
    \/ \E s \in ShortRuns : recordTiming(s)
    \/ \E s \in ShortRuns : recordCapacity(s)
    \/ \E i \in 1 .. MaxSaves : saveCapacity_found(i)
    \/ \E i \in 1 .. MaxSaves : saveCapacity_written(i)
    \/ \E i \in 1 .. MaxSaves : saveCapacity_failed(i)
    \/ Advance

SpecShort == InitShort /\ [][NextShort]_vars

\* the answers of the day after: one sailing per route, a day after the first
\* sailing of today
Tomorrow ==
    [Upstream EXCEPT
        !.schedule = [route \in Routes |->
                        IF route = <<1, 2>> THEN <<Departure(T1 + Day, 1, 3)>>
                        ELSE <<Departure(T1 + Day, 2, 2)>>],
        !.spaces = <<Reading(1, 2, T1 + Day, 1, 4, 5, 10)>>,
        !.flush = [f \in Families |->
                     IF f = "vessels" THEN Upstream.flush[f] ELSE Upstream.flush[f] + 1]]

\* midnight: scheduletoday answers the sailings of the new day, and the schedule
\* and terminals families have a new flush date
NewDay ==
    /\ upstream = Upstream
    /\ upstream' = Tomorrow
    /\ now' = now + Day
    /\ UNCHANGED <<cacheFlushDates, updateProgress, promise, cacheVars, db, long, short,
                   saves, server, calls, faults>>
    /\ UNCHANGED probe

\* as InitRunning, the table holding a row of one week before each first sailing
\* of today and of tomorrow; no request fails in the runs that follow
InitDay ==
    /\ upstream = Upstream
    /\ db = <<Row(1, 2, T1 - Week, 3, 0, 10), Row(1, 2, T1 + Day - Week, 4, 1, 10)>>
    /\ now = Now0
    /\ faults = MaxFaults
    /\ cacheFlushDates = [f \in Families |-> wsfDateToTimestamp(upstream.flush[f])]
    /\ updateProgress = [f \in Families |-> 1]
    /\ promise = [r \in LongRuns |->
                    [f \in Families |-> IF r = 1 THEN "fulfilled" ELSE "none"]]
    /\ matesByTerminalId = BuildMates(EmptyMap, upstream.mates)
    /\ vesselsById = AssignVessels(
                        RecordTimings([v \in VesselIds |-> NoVessel], upstream.locations),
                        upstream.vessels)
    /\ previousCapacityByTerminal =
          SetShadow([route \in Routes |-> EmptyMap], FindAll(T1 - Week, T2 - Week))
    /\ scheduleByTerminal =
          [route \in Routes |-> keyBy(EmptyMap, BuildSchedule(upstream.schedule[route]))]
    /\ terminalsById =
          assignTerminalMates(
              assignTerminalMates(
                  AssignTerminals([t \in TerminalIds |-> NoTerminal], upstream.terminals),
                  1, <<2>>),
              2, <<1>>)
    /\ long = [r \in LongRuns |->
                 IF r = 1 THEN [IdleLong EXCEPT !.pc = "done", !.origin = "startup"]
                 ELSE IdleLong]
    /\ short = [s \in ShortRuns |->
                  IF s = 1 THEN [IdleShort EXCEPT !.pc = "done", !.origin = "startup"]
                  ELSE IdleShort]
    /\ saves = <<>>
    /\ server = "running"
    /\ calls = [c \in CallIds |-> IdleCall]
    /\ probe = NoProbe

\* both cycles over the change of day (the vessels are not fetched again: their
\* flush date stays)
NextDay ==
    \/ NewDay
    \/ \E r \in LongRuns : LongTick(r)
    \/ \E r \in LongRuns : updateVessels_flush(r)
    \/ \E r \in LongRuns : updateSchedule_flush(r)
    \/ \E r \in LongRuns : updateSchedule_mates(r)
    \/ \E r \in LongRuns : updateSchedule_today(r)
    \/ \E r \in LongRuns : updateSchedule_shadow(r)
    \/ \E r \in LongRuns : updateSchedule_backfill(r)
    \/ \E r \in LongRuns : updateTerminals_flush(r)
    \/ \E r \in LongRuns : updateTerminals_fetch(r)
    \/ \E r \in LongRuns : updateTerminals_mates(r)
    \/ \E r \in LongRuns : updateTerminals_route(r)
    \/ \E s \in ShortRuns : ShortTick(s)
    \/ \E s \in ShortRuns : recordTiming(s)
    \/ \E s \in ShortRuns : recordCapacity(s)
    \/ \E i \in 1 .. MaxSaves : saveCapacity_found(i)
    \/ \E i \in 1 .. MaxSaves : saveCapacity_written(i)

SpecDay == InitDay /\ [][NextDay]_vars

\* vessellocations answers of vessel 1: under way, and at the dock (LeftDock is
\* null then)
UnderWay ==
    [id |-> 1, atDock |-> FALSE, leftDock |-> T1 + 5, scheduled |-> T1, speed |-> 12,
     etaBasis |-> 1]

Docked ==
    [id |-> 1, atDock |-> TRUE, leftDock |-> Null, scheduled |-> T2, speed |-> 0,
     etaBasis |-> Null]

\* under way again, on the sailing of T2, which it left seven seconds late
Departed ==
    [id |-> 1, atDock |-> FALSE, leftDock |-> T2 + 7, scheduled |-> T2, speed |-> 12,
     etaBasis |-> 1]

\* vessel 1 arrives at the dock, or leaves it
VesselMoves ==
    /\ upstream' = [upstream EXCEPT !.locations =
                        IF @ = <<Docked>> THEN <<Departed>> ELSE <<Docked>>]
    /\ UNCHANGED <<cacheFlushDates, updateProgress, promise, cacheVars, db, long, short,
                   saves, server, calls, faults, now>>
    /\ UNCHANGED probe

\* the short cycle while the vessel moves
NextDock ==
    \/ VesselMoves
    \/ \E s \in ShortRuns : ShortTick(s)
    \/ \E s \in ShortRuns : recordTiming(s)
    \/ \E s \in ShortRuns : recordCapacity(s)
    \/ \E i \in 1 .. MaxSaves : saveCapacity_found(i)
    \/ \E i \in 1 .. MaxSaves : saveCapacity_written(i)
    \/ \E i \in 1 .. MaxSaves : saveCapacity_failed(i)
    \/ Advance
    \/ \E c \in CallIds : Call(c, "getVessel")
    \/ \E c \in CallIds : Return(c)

SpecDock == InitShort /\ [][NextDock]_vars

\* the module as it is loaded; the vessellocations answer has vessel 1 under way
\* or at the dock
InitStart ==
    /\ InitCache
    /\ \E locations \in {<<UnderWay>>, <<Docked>>} :
          upstream = [Upstream EXCEPT !.locations = locations]
    /\ db = <<Row(1, 2, T1 - Week, 3, 0, 10)>>
    /\ now = Now0
    /\ probe = NoProbe

\* the start-up code: the first long cycle and the first short cycle, started
\* together, and what follows their end
NextStart ==
    \/ Startup
    \/ ArmTimers
    \/ StartupRejected
    \/ RefreshStep
    \/ \E s \in ShortRuns : recordTiming(s)
    \/ \E s \in ShortRuns : recordCapacity(s)
    \/ \E i \in 1 .. MaxSaves : saveCapacity_found(i)
    \/ \E i \in 1 .. MaxSaves : saveCapacity_written(i)
    \/ \E i \in 1 .. MaxSaves : saveCapacity_failed(i)

SpecStart == InitStart /\ [][NextStart]_vars

\* isEmpty and isFull on their own: a capacity record with counts of any size
\* up to MaxCount is given to both
Counts == 0 .. MaxCount

InitCapacity ==
    /\ InitCache
    /\ upstream = Upstream
    /\ db = <<>>
    /\ now = Now0
    /\ \E d \in Counts, r \in Counts, t \in Counts :
          probe = [NoProbe EXCEPT !.pc = "given",
                                  !.capacity = [NoCapacity EXCEPT !.present = TRUE,
                                                                  !.driveUpCapacity = d,
                                                                  !.reservableCapacity = r,
                                                                  !.totalCapacity = t]]

Classify ==
    /\ probe.pc = "given"
    /\ probe' = [probe EXCEPT !.pc = "answered",
                              !.isEmpty = isEmpty(probe.capacity),
                              !.isFull = isFull(probe.capacity)]
    /\ UNCHANGED <<cacheFlushDates, updateProgress, promise, cacheVars, db, long, short,
                   saves, server, calls, upstream, faults, now>>

NextCapacity == Classify

SpecCapacity == InitCapacity /\ [][NextCapacity]_vars

\* hasPassed on its own, and the hasPassed of a crossing built for the same
\* departure: departures around the clock, with no delay, a delay of zero, and
\* delays and early departures of two seconds and more
Deltas == {Null, 0} \cup {d : d \in 2 .. MaxDelta} \cup {0 - d : d \in 2 .. MaxDelta}

InitPassed ==
    /\ InitCache
    /\ upstream = Upstream
    /\ db = <<>>
    /\ now = Now0
    /\ \E t \in (Now0 - MaxDelta - 1) .. (Now0 + MaxDelta + 1), delta \in Deltas :
          probe = [NoProbe EXCEPT !.pc = "given",
                                  !.capacity = [NoCapacity EXCEPT !.present = TRUE,
                                                                  !.departureId = 1,
                                                                  !.arrivalId = 2,
                                                                  !.departureTime = t,
                                                                  !.departureDelta = delta]]

AskPassed ==
    /\ probe.pc = "given"
    /\ probe' = [probe EXCEPT
                    !.pc = "answered",
                    !.hasPassed = hasPassed(probe.capacity),
                    !.crossing = BuildCrossing(Departure(probe.capacity.departureTime, 1, 3),
                                               <<>>)]
    /\ UNCHANGED <<cacheFlushDates, updateProgress, promise, cacheVars, db, long, short,
                   saves, server, calls, upstream, faults, now>>

NextPassed == AskPassed

SpecPassed == InitPassed /\ [][NextPassed]_vars

(* ------------------------------- claims ------------------------------- *)
Active(r) == long[r].pc \notin {"idle", "done", "failed"}

\* C1: an accessor called while a refresh of its family is in flight does not
\* return before that refresh has completed.
C1_ReadAwaitsRefresh ==
    \A c \in CallIds :
        calls[c].pc = "returned" =>
            \A r \in calls[c].inflight : promise[r][FamilyOf(calls[c].acc)] # "pending"

\* C2: at most one invocation of updateCache is in progress at any time.
C2_SingleFlight == Cardinality({r \in LongRuns : Active(r)}) <= 1

\* C3: an accessor called after the refresh of its family has failed does not
\* fail: it returns the cached data.
C3_ReadAfterFailure ==
    \A c \in CallIds : ~ (calls[c].stale /\ calls[c].pc = "threw")

FlushPc(f) ==
    CASE f = "vessels" -> "v_flush" [] f = "schedule" -> "s_flush" [] OTHER -> "t_flush"

SkipPc(f) ==
    CASE f = "vessels" -> "s_flush" [] f = "schedule" -> "t_flush" [] OTHER -> "done"

\* run r receives the flush date of family f, the request did not fail and the
\* date is the one recorded
SameTokenStep(r, f) ==
    /\ long[r].pc = FlushPc(f)
    /\ long'[r].pc # FlushPc(f)
    /\ faults' = faults
    /\ wsfDateToTimestamp(upstream.flush[f]) = cacheFlushDates[f]

\* C4: when the flush date a refresher receives is the recorded one, the refresh
\* is skipped: nothing is fetched and the mates, schedule, vessel, terminal and
\* shadow maps are left as they were.
C4_SkipLeavesCache ==
    [][\A r \in LongRuns, f \in Families :
          SameTokenStep(r, f) =>
              /\ long'[r].pc = SkipPc(f)
              /\ UNCHANGED cacheVars
              /\ UNCHANGED cacheFlushDates]_vars

\* C4, its case: a run started by the timer that skipped all three families
C4_Witness ==
    \E r \in LongRuns :
        long[r].pc = "done" /\ long[r].origin = "tick" /\ long[r].skipped = Families

\* C5: a schedule refresh that failed has left the mates index and the schedule
\* map as they were when it started.
C5_FailureKeepsMaps ==
    \A r \in LongRuns :
        long[r].pc = "failed" /\ long[r].failedIn = "schedule" =>
            /\ matesByTerminalId = long[r].before.mates
            /\ scheduleByTerminal = long[r].before.schedule

\* C6: the run that follows a run which gave up the refresh of a family part-way
\* does not skip that family.
C6_FailedRefreshRetried ==
    \A r \in LongRuns : long[r].retryOf \notin long[r].skipped

\* C7: the start-up code arms the timers even when a first cycle failed.
C7_TimersSurviveFailure == server # "failed"

\* C8: a refresh whose flush date is missing is not skipped.
C8_MissingTokenRefetches ==
    \A r \in LongRuns : long[r].missing \cap long[r].skipped = {}

\* C9: the table holds at most one row per key.
C9_OneRowPerKey ==
    \A i \in 1 .. Len(db), j \in 1 .. Len(db) : i # j => ~ SameKey(db[i], db[j])

\* the departure that precedes time t in a schedule, if there is one
Preceding(schedule, t) ==
    {p \in DOMAIN schedule : p < t /\ \A q \in DOMAIN schedule : q < t => q <= p}

\* C10: when a reading is processed for a sailing whose preceding departure has a
\* capacity that has not passed and is not full, and the reading is not empty,
\* the preceding departure's capacity is zero afterwards and the write of it is
\* started.
C10_Supersession ==
    [][\A s \in ShortRuns :
          short[s].pc = "capacity" /\ short'[s].pc = "done" =>
              \A i \in 1 .. Len(upstream.spaces) :
                  LET capacity == BuildCapacity(upstream.spaces[i])
                      route == <<capacity.departureId, capacity.arrivalId>>
                  IN  \A p \in Preceding(scheduleByTerminal[route], capacity.departureTime) :
                          /\ HasCrossing(scheduleByTerminal, capacity)
                          /\ Superseded(scheduleByTerminal[route][p].capacity, capacity)
                          => /\ isFull(scheduleByTerminal'[route][p].capacity)
                             /\ \E k \in 1 .. Len(saves') :
                                   /\ SameKey(saves'[k].capacity,
                                              scheduleByTerminal[route][p].capacity)
                                   /\ isFull(saves'[k].capacity)]_vars

\* the rows of the table with the key (route, t)
RowsAt(table, route, t) ==
    {k \in 1 .. Len(table) : /\ table[k].departureId = route[1]
                             /\ table[k].arrivalId = route[2]
                             /\ table[k].departureTime = t}

\* C11: when a short cycle ends, every crossing with a row in the table at its
\* time minus one week on its route has that row's driveUpCapacity and
\* reservableCapacity as its estimate, and every other crossing has estimate null.
C11_EstimateOfLastWeek ==
    [][\A s \in ShortRuns :
          short[s].pc = "capacity" /\ short'[s].pc = "done" =>
              \A route \in Routes : \A t \in DOMAIN scheduleByTerminal'[route] :
                  LET estimate == scheduleByTerminal'[route][t].estimate
                      rows == RowsAt(db', route, t - Week)
                  IN  IF rows = {} THEN estimate.kind = "null"
                      ELSE \E k \in rows :
                              /\ estimate.kind = "value"
                              /\ estimate.driveUpCapacity = db'[k].driveUpCapacity
                              /\ estimate.reservableCapacity = db'[k].reservableCapacity]_vars

\* run s receives the vessellocations answer and recordTiming does not fail
TimingPoll(s) == short[s].pc = "timing" /\ short'[s].pc = "capacity"

\* C12: a timing poll that finds a vessel at the dock that was at the dock already
\* leaves its dockedTime as it was (the time of the poll that found it arrived).
C12_DockedTimeKept ==
    [][\A s \in ShortRuns :
          TimingPoll(s) =>
              \A i \in 1 .. Len(upstream.locations) :
                  LET location == upstream.locations[i] IN
                  location.atDock /\ vesselsById[location.id].isAtDock =>
                      vesselsById'[location.id].dockedTime =
                          vesselsById[location.id].dockedTime]_vars

\* run s receives the terminalsailingspace answer and updateCrossings ends
CapacityPoll(s) == short[s].pc = "capacity" /\ short'[s].pc = "done"

\* C13: a reading with no crossing raises no error, starts no write and adds no
\* crossing, and the readings that have a crossing are attached and their writes
\* started.
C13_UnmatchedReadingDropped ==
    [][\A s \in ShortRuns :
          CapacityPoll(s) =>
              /\ \A route \in Routes :
                     DOMAIN scheduleByTerminal'[route] = DOMAIN scheduleByTerminal[route]
              /\ \A i \in 1 .. Len(upstream.spaces) :
                     LET capacity == BuildCapacity(upstream.spaces[i])
                         route == <<capacity.departureId, capacity.arrivalId>>
                         started == (Len(saves) + 1) .. Len(saves')
                     IN  IF HasCrossing(scheduleByTerminal, capacity)
                         THEN /\ scheduleByTerminal'[route][capacity.departureTime].capacity
                                     = capacity
                              /\ \E k \in started : saves'[k].capacity = capacity
                         ELSE /\ short'[s].unhandled = 0
                              /\ \A k \in started :
                                     ~ SameKey(saves'[k].capacity, capacity)]_vars

\* the save at position i rejects in this step
SaveFails(i) ==
    /\ i \in 1 .. Len(saves) /\ i \in 1 .. Len(saves')
    /\ saves[i].pc # "failed"
    /\ saves'[i].pc = "failed"

\* C14: the step that handles the terminalsailingspace answer attaches every
\* reading that has a crossing, recomputes the estimates and ends the cycle,
\* whatever becomes of the writes it started; and a write that fails later
\* changes neither the cache nor any cycle.
C14_WriteFailureKeepsUpdate ==
    [][/\ \A s \in ShortRuns :
             short[s].pc = "capacity" /\ short'[s] # short[s] /\ faults' = faults =>
                 /\ short'[s].pc = "done"
                 /\ \A i \in 1 .. Len(upstream.spaces) :
                        LET capacity == BuildCapacity(upstream.spaces[i])
                            route == <<capacity.departureId, capacity.arrivalId>>
                        IN  HasCrossing(scheduleByTerminal, capacity) =>
                                scheduleByTerminal'[route][capacity.departureTime].capacity
                                    = capacity
                 /\ \A route \in Routes : \A t \in DOMAIN scheduleByTerminal'[route] :
                        scheduleByTerminal'[route][t].estimate =
                            Estimate(previousCapacityByTerminal, route,
                                     scheduleByTerminal'[route][t])
       /\ \A i \in 1 .. MaxSaves :
             SaveFails(i) => UNCHANGED cacheVars /\ UNCHANGED short]_vars

\* C14, its case: the write of a reading has failed, and the reading is attached
\* to its crossing in a cycle that has ended
C14_Witness ==
    \E i \in 1 .. Len(saves) :
        LET capacity == saves[i].capacity
            route == <<capacity.departureId, capacity.arrivalId>>
        IN  /\ saves[i].pc = "failed"
            /\ HasCrossing(scheduleByTerminal, capacity)
            /\ scheduleByTerminal[route][capacity.departureTime].capacity = capacity
            /\ \E s \in ShortRuns : short[s].pc = "done" /\ short[s].origin = "tick"
            /\ \A s \in ShortRuns : short[s].pc \in {"idle", "done"}

\* run r receives the vesselverbose answer and merges it into the cache
StaticRefresh(r) == long[r].pc = "v_fetch" /\ long'[r].pc = "s_flush"

\* C15: the merge of the static attributes leaves the at-dock flag, dockedTime,
\* departureDelta, the speed and the crossing info that the short cycle wrote
\* to a vessel as they were.
C15_StaticKeepsDynamic ==
    [][\A r \in LongRuns :
          StaticRefresh(r) =>
              \A v \in VesselIds :
                  vesselsById[v].known =>
                      /\ vesselsById'[v].isAtDock = vesselsById[v].isAtDock
                      /\ vesselsById'[v].dockedTime = vesselsById[v].dockedTime
                      /\ vesselsById'[v].departureDelta = vesselsById[v].departureDelta
                      /\ vesselsById'[v].speed = vesselsById[v].speed
                      /\ vesselsById'[v].info.crossing = vesselsById[v].info.crossing]_vars

\* the step in which getVessel hands its answer to the caller c
GetVesselAnswers(c) ==
    /\ calls[c].acc = "getVessel"
    /\ calls[c].pc = "waiting"
    /\ calls'[c].pc = "returned"

\* the vessel the holder of an answer of getVessel reads through it
Seen(ref) == IF ref.live THEN vesselsById[ref.id] ELSE ref.snap

\* C16: getVessel with resetDelay answers with a copy of the cached vessel whose
\* departureDelta is null, and neither the answer nor a later write to the
\* cache makes cache and copy follow each other; without resetDelay it answers
\* with the cached vessel itself, departureDelta as it is
C16_CopyOrCached ==
    [][\A c \in CallIds :
          /\ GetVesselAnswers(c) =>
                LET a == calls[c].args
                    ref == calls'[c].result.vessel
                IN  /\ vesselsById' = vesselsById
                    /\ a.resetDelay =>
                          /\ ~ ref.live
                          /\ ref.snap = [vesselsById[a.id] EXCEPT !.departureDelta = Null]
                    /\ ~ a.resetDelay => ref.live /\ ref.id = a.id
          /\ (calls[c].pc = "returned" /\ calls[c].acc = "getVessel"
                /\ vesselsById' # vesselsById) =>
                /\ calls'[c] = calls[c]
                /\ ~ calls[c].result.vessel.live =>
                      Seen(calls[c].result.vessel)' = Seen(calls[c].result.vessel)
                /\ calls[c].result.vessel.live =>
                      Seen(calls[c].result.vessel)' = vesselsById'[calls[c].args.id]]_vars

\* a copy was handed out, and the cached vessel has moved on since: it has a
\* delay and is at the dock, the copy has no delay and is under way
C16_Witness ==
    \E c \in CallIds :
        /\ calls[c].pc = "returned"
        /\ calls[c].acc = "getVessel"
        /\ calls[c].args.resetDelay
        /\ vesselsById[calls[c].args.id].departureDelta # Null
        /\ calls[c].result.vessel.snap.departureDelta = Null
        /\ vesselsById[calls[c].args.id].isAtDock
        /\ ~ calls[c].result.vessel.snap.isAtDock

\* the step in which run r, having rebuilt the schedule, ends its refresh of it
ScheduleRefreshed(r) == long[r].pc = "s_backfill" /\ long'[r].pc = "t_flush"

\* the rows of the table for a crossing that are not older than a day
RecentRows(route, t) == {k \in RowsAt(db, route, t) : db[k].departureTime >= now - Day}

\* C17: when a refresh that rebuilt the schedule ends, every crossing with a row
\* of its key in the table, not older than a day, has such a row as its capacity,
\* and every other crossing has no capacity
C17_BackfillAttachesRows ==
    [][\A r \in LongRuns :
          ScheduleRefreshed(r) =>
              \A route \in Routes : \A t \in DOMAIN scheduleByTerminal'[route] :
                  LET capacity == scheduleByTerminal'[route][t].capacity
                  IN  IF RecentRows(route, t) # {}
                      THEN \E k \in RecentRows(route, t) : capacity = db[k]
                      ELSE capacity = NoCapacity]_vars

\* the step in which run r receives the sailings of a route and builds its
\* crossings, and the crossings it builds
BuildsCrossings(r) ==
    /\ long[r].pc = "s_today"
    /\ long'[r] # long[r]
    /\ long'[r].pc \in {"s_today", "s_shadow", "s_backfill"}

BuiltCrossings(r) ==
    LET route == long[r].pairs[long[r].idx]
    IN  IF long'[r].pc = "s_shadow"
        THEN {long'[r].built[i] : i \in 1 .. Len(long'[r].built)}
        ELSE {scheduleByTerminal'[route][t] : t \in DOMAIN scheduleByTerminal'[route]}

\* C18: a crossing built from a sailing with loading rule 1, 2 or 3 allows
\* passengers exactly when the rule is 1 or 3 and vehicles exactly when the rule
\* is 2 or 3
C18_LoadingRule ==
    [][\A r \in LongRuns :
          BuildsCrossings(r) =>
              LET sailings == upstream.schedule[long[r].pairs[long[r].idx]]
              IN  \A i \in 1 .. Len(sailings) :
                      sailings[i].rule \in {1, 2, 3} =>
                          \E crossing \in BuiltCrossings(r) :
                              /\ crossing.time = wsfDateToTimestamp(sailings[i].time)
                              /\ crossing.allowsPassengers <=>
                                    (sailings[i].rule = 1 \/ sailings[i].rule = 3)
                              /\ crossing.allowsVehicles <=>
                                    (sailings[i].rule = 2 \/ sailings[i].rule = 3)]_vars

\* a run of the timer has rebuilt both routes: sailings of rule 3, 1 and 2
C18_Witness ==
    \E r \in LongRuns :
        /\ long[r].origin # "startup"
        /\ long[r].pc = "s_backfill"
        /\ scheduleByTerminal[<<1, 2>>][T1].allowsPassengers
        /\ scheduleByTerminal[<<1, 2>>][T1].allowsVehicles
        /\ scheduleByTerminal[<<1, 2>>][T2].allowsPassengers
        /\ ~ scheduleByTerminal[<<1, 2>>][T2].allowsVehicles
        /\ ~ scheduleByTerminal[<<2, 1>>][T1].allowsPassengers
        /\ scheduleByTerminal[<<2, 1>>][T1].allowsVehicles

\* C19: for a capacity with counts that are not negative, isEmpty answers true
\* exactly when driveUpCapacity + reservableCapacity = totalCapacity, isFull
\* exactly when driveUpCapacity = 0 and reservableCapacity = 0, and both answer
\* true only when totalCapacity = 0
C19_EmptyAndFull ==
    probe.pc = "answered" =>
        LET c == probe.capacity
        IN  /\ probe.isEmpty <=> (c.driveUpCapacity + c.reservableCapacity = c.totalCapacity)
            /\ probe.isFull <=> (c.driveUpCapacity = 0 /\ c.reservableCapacity = 0)
            /\ (probe.isEmpty /\ probe.isFull) => c.totalCapacity = 0

\* a vessel of no capacity is answered to be both empty and full
C19_Witness ==
    /\ probe.pc = "answered"
    /\ probe.isEmpty
    /\ probe.isFull
    /\ probe.capacity.totalCapacity = 0

\* the step in which getSchedule hands its answer to the caller c
GetScheduleAnswers(c) ==
    /\ calls[c].acc = "getSchedule"
    /\ calls[c].pc = "waiting"
    /\ calls'[c].pc = "returned"

\* C20: getSchedule answers with the crossings of the route in the order of
\* their departure times, one for each departure time of the cached schedule,
\* and with the empty list for a route that has no cached schedule
C20_ScheduleInOrder ==
    [][\A c \in CallIds :
          GetScheduleAnswers(c) =>
              LET route == <<calls[c].args.departingId, calls[c].args.arrivingId>>
                  cached == IF route \in Routes THEN DOMAIN scheduleByTerminal[route] ELSE {}
                  answer == calls'[c].result.schedule
              IN  /\ \A i \in 1 .. Len(answer) : \A j \in 1 .. Len(answer) :
                        i < j => answer[i] < answer[j]
                  /\ {answer[i] : i \in 1 .. Len(answer)} = cached
                  /\ cached = {} => answer = <<>>]_vars

\* a caller has been handed the two crossings of a route
C20_Witness ==
    \E c \in CallIds :
        /\ calls[c].pc = "returned"
        /\ calls[c].acc = "getSchedule"
        /\ Len(calls[c].result.schedule) = 2

\* C21: when the schedule of a route is built, the first sailing of each vessel
\* gets a copy of the vessel with departureDelta cleared, and every later sailing
\* of that vessel gets the vessel with the departureDelta it has
C21_FirstSailingCleared ==
    [][\A r \in LongRuns :
          BuildsCrossings(r) =>
              LET sailings == upstream.schedule[long[r].pairs[long[r].idx]]
              IN  \A i \in 1 .. Len(sailings) :
                      \E crossing \in BuiltCrossings(r) :
                          /\ crossing.time = wsfDateToTimestamp(sailings[i].time)
                          /\ IF \E j \in 1 .. i - 1 : sailings[j].vessel = sailings[i].vessel
                             THEN Seen(crossing.vessel).departureDelta =
                                      vesselsById[sailings[i].vessel].departureDelta
                             ELSE Seen(crossing.vessel).departureDelta = Null]_vars

\* C22: a timing poll gives a vessel whose LeftDock and ScheduledDeparture are
\* both known the difference of the two as its departureDelta, and leaves the
\* departureDelta of a vessel for which one of them is unknown as it was
C22_DelayIsSticky ==
    [][\A s \in ShortRuns :
          TimingPoll(s) =>
              \A i \in 1 .. Len(upstream.locations) :
                  LET location == upstream.locations[i]
                      departedTime == wsfDateToTimestamp(location.leftDock)
                      departureTime == wsfDateToTimestamp(location.scheduled)
                  IN  IF departedTime # Null /\ departureTime # Null
                      THEN vesselsById'[location.id].departureDelta =
                               departedTime - departureTime
                      ELSE vesselsById'[location.id].departureDelta =
                               vesselsById[location.id].departureDelta]_vars

\* the vessel left seven seconds late, has arrived since, and a poll that finds
\* it at the dock with no LeftDock has left the seven seconds in place
C22_Witness ==
    /\ upstream.locations = <<Docked>>
    /\ vesselsById[1].isAtDock
    /\ vesselsById[1].departureDelta = 7

\* the place of a position of updateCache in the order of its stages: vessels,
\* then the schedule (mates, the routes one by one, the backfill), then terminals
Rank(pc) ==
    CASE pc = "v_flush" -> 1
      [] pc = "v_fetch" -> 2
      [] pc = "s_flush" -> 3
      [] pc = "s_mates" -> 4
      [] pc \in {"s_today", "s_shadow"} -> 5
      [] pc = "s_backfill" -> 6
      [] pc = "t_flush" -> 7
      [] pc = "t_fetch" -> 8
      [] pc = "t_mates" -> 9
      [] pc = "t_route" -> 10
      [] OTHER -> 11

StageOf(pc) ==
    IF Rank(pc) <= 2 THEN "vessels" ELSE IF Rank(pc) <= 6 THEN "schedule" ELSE "terminals"

\* C23: a run of the long cycle goes through vessels, schedule (mates, routes,
\* backfill) and terminals in this order, a stage is started only when the one
\* before it has completed, and no two stages of a run are in progress together
C23_StagesInOrder ==
    [][\A r \in LongRuns :
          /\ Active(r) => Rank(long'[r].pc) >= Rank(long[r].pc)
          /\ Active(r)' =>
                \A f \in Families : promise'[r][f] = "pending" <=> f = StageOf(long'[r].pc)
          /\ promise'[r].schedule # "none" => promise'[r].vessels = "fulfilled"
          /\ promise'[r].terminals # "none" => promise'[r].schedule = "fulfilled"]_vars

\* a run of the timer that rebuilt the schedule is at its terminals
C23_Witness ==
    \E r \in LongRuns :
        /\ long[r].origin = "tick"
        /\ long[r].pc = "t_route"
        /\ "schedule" \notin long[r].skipped
        /\ promise[r] = [f \in Families |->
                            IF f = "terminals" THEN "pending" ELSE "fulfilled"]

\* C24: a run of the short cycle does the timing update, then the capacity
\* update, and when it ends every reading of its answer that has a crossing is
\* attached (as it was read, or corrected to full) and every crossing carries the
\* estimate computed after that: nothing of the answer is left to be processed
C24_ShortCycleInOrder ==
    [][\A s \in ShortRuns :
          /\ short[s].pc = "idle" => short'[s].pc \in {"idle", "timing"}
          /\ short[s].pc = "timing" => short'[s].pc \in {"timing", "capacity", "failed"}
          /\ short[s].pc = "capacity" => short'[s].pc \in {"capacity", "done", "failed"}
          /\ CapacityPoll(s) =>
                /\ \A i \in 1 .. Len(upstream.spaces) :
                      LET capacity == BuildCapacity(upstream.spaces[i])
                          route == <<capacity.departureId, capacity.arrivalId>>
                      IN  HasCrossing(scheduleByTerminal, capacity) =>
                              scheduleByTerminal'[route][capacity.departureTime].capacity \in
                                  {capacity, [capacity EXCEPT !.driveUpCapacity = 0,
                                                              !.reservableCapacity = 0]}
                /\ \A route \in Routes : \A t \in DOMAIN scheduleByTerminal'[route] :
                      scheduleByTerminal'[route][t].estimate =
                          Estimate(previousCapacityByTerminal, route,
                                   scheduleByTerminal'[route][t])]_vars

\* a run of the timer has ended on an answer of two readings, both attached
C24_Witness ==
    \E s \in ShortRuns :
        /\ short[s].pc = "done"
        /\ short[s].origin = "tick"
        /\ Len(upstream.spaces) = 2
        /\ \A i \in 1 .. 2 :
              scheduleByTerminal[<<1, 2>>][upstream.spaces[i].time].capacity.driveUpCapacity
                  = upstream.spaces[i].driveUp

\* the capacity of the crossing (route, t) once the readings are attached
RECURSIVE AsRead(_, _, _)
AsRead(readings, route, t) ==
    IF readings = <<>> THEN scheduleByTerminal[route][t].capacity
    ELSE LET capacity == BuildCapacity(readings[Len(readings)])
         IN  IF <<capacity.departureId, capacity.arrivalId>> = route
                 /\ capacity.departureTime = t
             THEN capacity
             ELSE AsRead(SubSeq(readings, 1, Len(readings) - 1), route, t)

\* a reading of the answer meets the conditions of the correction of the
\* crossing (route, p): p is the departure before the one of the reading, has a
\* capacity that has not passed and is not full, and the reading is not empty
CorrectionDue(route, p) ==
    \E i \in 1 .. Len(upstream.spaces) :
        LET capacity == BuildCapacity(upstream.spaces[i])
        IN  /\ <<capacity.departureId, capacity.arrivalId>> = route
            /\ HasCrossing(scheduleByTerminal, capacity)
            /\ p \in Preceding(scheduleByTerminal[route], capacity.departureTime)
            /\ Superseded(AsRead(upstream.spaces, route, p), capacity)

\* C25: processing the readings changes the capacity of a sailing other than
\* the one read only for the departure just before a reading on the same route,
\* and only when that departure has a capacity that has not passed and is not
\* full and the reading is not empty
C25_CorrectionOnlyWhenDue ==
    [][\A s \in ShortRuns :
          CapacityPoll(s) =>
              \A route \in Routes : \A p \in DOMAIN scheduleByTerminal[route] :
                  scheduleByTerminal'[route][p].capacity # AsRead(upstream.spaces, route, p)
                      => CorrectionDue(route, p)]_vars

\* an answer with a reading for the first departure of a route has been
\* processed, and the departure after it has its capacity as it was read
C25_Witness ==
    \E s \in ShortRuns :
        /\ short[s].pc = "done"
        /\ short[s].origin = "tick"
        /\ Len(upstream.spaces) = 2
        /\ upstream.spaces[1].time = T1
        /\ Preceding(scheduleByTerminal[<<1, 2>>], T1) = {}
        /\ scheduleByTerminal[<<1, 2>>][T2].capacity = BuildCapacity(upstream.spaces[2])

\* C26: hasPassed of a capacity is true exactly when its departure time plus
\* its delay is before the clock, no delay, null and zero counting as none; the
\* hasPassed of a crossing built now is true exactly when its time is before the
\* clock
C26_HasPassed ==
    probe.pc = "answered" =>
        LET c == probe.capacity
            delay == IF c.departureDelta \in {Null, 0} THEN 0 ELSE c.departureDelta
        IN  /\ probe.hasPassed <=> (c.departureTime + delay < now)
            /\ probe.crossing.time = c.departureTime
            /\ probe.crossing.hasPassed <=> (probe.crossing.time < now)

\* a sailing that left early: the capacity has passed, the crossing built for
\* it has not
C26_Witness ==
    /\ probe.pc = "answered"
    /\ probe.capacity.departureDelta < Null
    /\ probe.hasPassed
    /\ ~ probe.crossing.hasPassed

\* the pairs of terminals of a mates list, and those of the index
PairsOfList(list) == {list[i] : i \in 1 .. Len(list)}

PairsOfIndex(m) == UNION {{<<id, m[id][i]>> : i \in 1 .. Len(m[id])} : id \in DOMAIN m}

NoPairTwice(m) ==
    \A id \in DOMAIN m : \A i \in 1 .. Len(m[id]) : \A j \in 1 .. Len(m[id]) :
        i # j => m[id][i] # m[id][j]

\* the step in which run r receives the mates answer
MatesAnswered(r) == long[r].pc = "s_mates" /\ long'[r].pc \in {"s_today", "s_backfill"}

\* C27: a schedule refresh that is not skipped makes the mates index hold
\* exactly the pairs of the mates list it fetched, each once: a pair of the
\* index that is not in the list is gone; and nothing else changes the index, so
\* that it holds the pairs of the list fetched last when a refresh ends
C27_MatesReplaced ==
    [][/\ \A r \in LongRuns :
            MatesAnswered(r) =>
                /\ PairsOfIndex(matesByTerminalId') = PairsOfList(upstream.mates)
                /\ NoPairTwice(matesByTerminalId')
       /\ matesByTerminalId' # matesByTerminalId => \E r \in LongRuns : MatesAnswered(r)]_vars

\* a refresh has ended after the route from 2 to 1 was closed: the index had
\* the pair and has it no more
C27_Witness ==
    \E r \in LongRuns :
        /\ long[r].pc = "t_flush"
        /\ "schedule" \notin long[r].skipped
        /\ upstream.mates = <<<<1, 2>>>>
        /\ PairsOfIndex(matesByTerminalId) = {<<1, 2>>}

\* the step in which run r, at a route with no shadow data, receives the rows
\* of one week before
ShadowLoaded(r) == long[r].pc = "s_shadow" /\ long'[r].pc \in {"s_today", "s_backfill"}

\* C28: the shadow map of a route is loaded only in a schedule refresh that
\* finds no shadow data for that route, with the rows of the table from one week
\* before the first to one week before the last sailing of the new schedule; the
\* shadow map of a route that has shadow data is left as it is
C28_ShadowLoadedOnce ==
    [][/\ \A r \in LongRuns :
            ShadowLoaded(r) =>
                LET route == long[r].pairs[long[r].idx]
                    schedule == long[r].built
                    startTime == Head(schedule).time - Week
                    endTime == schedule[Len(schedule)].time - Week
                IN  /\ previousCapacityByTerminal[route] = EmptyMap
                    /\ \A t \in startTime .. endTime :
                          IF RowsAt(db, route, t) # {}
                          THEN /\ t \in DOMAIN previousCapacityByTerminal'[route]
                               /\ \E k \in RowsAt(db, route, t) :
                                     previousCapacityByTerminal'[route][t] = db[k]
                          ELSE t \notin DOMAIN previousCapacityByTerminal'[route]
                    /\ DOMAIN previousCapacityByTerminal'[route] \subseteq startTime .. endTime
       /\ \A route \in Routes :
            previousCapacityByTerminal[route] # EmptyMap =>
                previousCapacityByTerminal'[route] = previousCapacityByTerminal[route]]_vars

\* C29: every accessor call eventually returns when every refresh that was
\* started completes: a call that waits is answered (or is handed the error of
\* the refresh) later on, also a call made before the first refresh of its
\* family was started
C29_AccessorReturns ==
    \A c \in CallIds :
        (calls[c].pc = "waiting") ~> (calls[c].pc \in {"returned", "threw"})

\* C30: a timing update whose answer names a vessel that is not in the vessel
\* cache yet completes without error and adds that vessel to the cache with its
\* live fields, also when it runs before the first long cycle filled the cache.
C30_TimingOfNewVessel ==
    [][\A s \in ShortRuns :
          (short[s].pc = "timing" /\ short'[s] # short[s] /\ faults' = faults) =>
              \A i \in 1 .. Len(upstream.locations) :
                  LET location == upstream.locations[i] IN
                  ~ vesselsById[location.id].known =>
                      /\ short'[s].pc = "capacity"
                      /\ vesselsById'[location.id].known
                      /\ vesselsById'[location.id].isAtDock = location.atDock
                      /\ vesselsById'[location.id].speed = location.speed]_vars

\* the rows the backfill step of now reads, and those among them whose key names
\* no crossing of the schedule
BackfillRows == FindAllAfter(now - Day)

Unmatched(row) ==
    row.departureTime \notin DOMAIN scheduleByTerminal[<<row.departureId, row.arrivalId>>]

\* C31: a backfill step that reads a row whose key matches no crossing completes
\* without error: the long cycle goes on to the terminal refresh, and every row
\* that matches a crossing is attached to it.
C31_BackfillIgnoresUnmatched ==
    [][\A r \in LongRuns :
          (/\ long[r].pc = "s_backfill"
           /\ long'[r] # long[r]
           /\ \E i \in 1 .. Len(BackfillRows) : Unmatched(BackfillRows[i])) =>
              /\ long'[r].pc = "t_flush"
              /\ \A i \in 1 .. Len(BackfillRows) :
                    LET row == BackfillRows[i] IN
                    ~ Unmatched(row) =>
                        \E k \in i .. Len(BackfillRows) :
                            /\ BackfillRows[k].departureId = row.departureId
                            /\ BackfillRows[k].arrivalId = row.arrivalId
                            /\ BackfillRows[k].departureTime = row.departureTime
                            /\ scheduleByTerminal'[<<row.departureId, row.arrivalId>>]
                                  [row.departureTime].capacity = BackfillRows[k]]_vars

\* the pairs (terminal, mate) that the mates lists of the terminals name
PairsOfTerminals(ts) == PairsOfIndex([t \in TerminalIds |-> ts[t].mates])

\* C32: when a run of the long cycle completes, with no other run under way,
\* the mates list of each terminal names exactly the mates the mates index
\* holds for that terminal, also when the schedule token changed and the
\* terminal token did not.
C32_TerminalMatesFollowIndex ==
    [][\A r \in LongRuns :
          (/\ Active(r)
           /\ long'[r].pc = "done"
           /\ \A q \in LongRuns \ {r} : ~ Active(q)) =>
              PairsOfTerminals(terminalsById') = PairsOfIndex(matesByTerminalId')]_vars

\* C33: every crossing that getSchedule returns carries hasPassed = (its
\* departure time is before now, the time of the call's answer), also a crossing
\* whose departure time went by since the schedule was built while the schedule
\* flush token stayed the same. The crossings returned are the cached objects.
C33_HasPassedIsCurrent ==
    [][\A c \in CallIds :
          GetScheduleAnswers(c) =>
              LET route == <<calls[c].args.departingId, calls[c].args.arrivingId>>
                  answer == calls'[c].result.schedule
              IN  \A i \in 1 .. Len(answer) :
                      scheduleByTerminal[route][answer[i]].hasPassed <=> (answer[i] < now)]_vars

====
